---- MODULE Spec2Model ----
(***************************************************************************)
(* Verification model of lunatic-log-rs / lunatic-tracing-core:            *)
(*   - the default-dispatcher context (dispatch.rs): the process-local     *)
(*     `scoped` and `global` slots, DefaultGuard, with_default;            *)
(*   - the Registry actor (callsite.rs): callsite list, dispatcher list,   *)
(*     interest combination and the published max level (level/filter.rs). *)
(* A Dispatch is modelled by the Option<DispatchProcess> it wraps: 0 is    *)
(* `collector: None`, a positive number is the id of a collector process.  *)
(***************************************************************************)
EXTENDS Integers, Sequences, FiniteSets, TLC

\* ------------------------------------------------------------------------
\* Bounds
\* ------------------------------------------------------------------------
MaxCollectors == 2       \* collector processes that can be spawned
MaxGuards == 2           \* DefaultGuards alive at the same time
MaxSetGlobalCalls == 2   \* calls of set_global_default in one run
MaxMailbox == 1          \* messages waiting in the Registry's mailbox
MaxCallsites == 2        \* callsites registered in one run
MaxSends == 2            \* fire-and-forget messages one producer sends to collectors
MaxSubscribers == 2      \* subscriber processes that can be spawned
MaxInits == 3            \* calls of init_subscriber in one run

\* ------------------------------------------------------------------------
\* Dispatch handles
\* ------------------------------------------------------------------------
\* Dispatch::none(): `collector: None`.
NoProcess == 0

Pids == 1..MaxCollectors

\* Every value a Dispatch can wrap: None or a collector process.
Dispatches == {NoProcess} \cup Pids

\* Dispatch::is_set: self.collector.is_some()
is_set(d) == d # NoProcess

VARIABLES
    scoped,      \* GlobalDispatchProcess.scoped : RefCell<Option<DispatchProcess>>
    global,      \* GlobalDispatchProcess.global : ProcessCached (None = 0)
    guards,      \* the DefaultGuards alive, in order of acquisition
    unwinding,   \* TRUE while a panic unwinds the with_default frames
    last,        \* the last operation of the calling process and what it returned
    sgd,         \* results of the set_global_default calls made so far
    lifo         \* TRUE while every guard release so far was of the newest guard

dvars == <<scoped, global, guards, unwinding, last, sgd, lifo>>

VARIABLES
    collectors,   \* collectors[p]: the Collect implementation of process p
    dead,         \* collector processes that have terminated
    notified,     \* collectors that were sent DispatchMessage::OnRegisterDispatch
    mailbox,      \* the Registry's mailbox, oldest message first
    callsites,    \* Registry.callsites : Vec<Callsite>
    dispatchers,  \* Registry.dispatchers : Vec<Dispatch>
    MAX_LEVEL,    \* static MAX_LEVEL : AtomicUsize
    stuck,        \* the Registry waits for a reply that never comes
    handled,      \* the message the Registry handled last; "none" once a
                  \* collector changed or died after it
    active        \* collectors whose registration the Registry completed

rvars == <<collectors, dead, notified, mailbox, callsites, dispatchers,
           MAX_LEVEL, stuck, handled, active>>

VARIABLES
    pc,           \* where the Registry is inside rebuild_interest: "idle"
                  \* outside of it, "callsites" after dispatchers.retain
    rebuild_max_level, \* the local `max_level` of the rebuild_interest in progress
    stale,        \* callsites the rebuild in progress has not rewritten yet
    published     \* MAX_LEVEL holds the value of the newest rebuild begun

bvars == <<pc, rebuild_max_level, stale, published>>

\* Everything outside the default-dispatcher context, and everything
\* outside the Registry's message handling.
VARIABLES
    callsite,     \* the Callsite of the calling process: metadata and cache
    call          \* the last operation on it, what it returned and sent

cvars == <<callsite, call>>

VARIABLES
    inbox,        \* the mailbox of every collector process, oldest message first
    pending,      \* per producer: the request whose reply it is blocked on
    ret,          \* the last Dispatch operation that returned, and its value
    nsent,        \* per producer: messages it has sent without a reply
    seen,         \* per collector and producer: number of the last message handled
    inorder       \* every message was handled after the earlier ones of its sender

mvars == <<inbox, pending, ret, nsent, seen, inorder>>

VARIABLE
    registry_reachable  \* REGISTRY_PROCESS.get() finds the Registry process

VARIABLES
    subscribers,  \* subscribers[p]: the Subscriber of spawned subscriber process p
    named,        \* the process registered under SUBSCRIBER_NAME (None = 0)
    SUBSCRIBER,   \* per process: static SUBSCRIBER, the cached process (None = 0)
    init_pc,      \* per process: where it is inside init_subscriber
    inits,        \* the init_subscriber calls that returned, oldest first
    cur           \* the last LevelFilter::current() call and what it did

svars == <<subscribers, named, SUBSCRIBER, init_pc, inits, cur>>

VARIABLE
    applied       \* the last call of a function of Level or LevelFilter

VARIABLES
    GLOBAL_DISPATCHER,  \* per process: process_local GlobalDispatchProcess {global, scoped}
    started,            \* the processes that run
    held,               \* per process: the DefaultGuards it holds, oldest first
    global_name,        \* the process registered under GLOBAL_DISPATCH_PROCESS_NAME
    plast               \* the last operation on a default-dispatcher context

lvars == <<GLOBAL_DISPATCHER, started, held, global_name, plast>>

VARIABLES
    STATIC_MAX_LEVEL, \* const STATIC_MAX_LEVEL: the LevelFilter the build selected
    smail,        \* per subscriber process: its mailbox, oldest event first
    shandled,     \* per subscriber process: the events it received, oldest first
    stmt          \* the last event! statement or dispatch call and what it did

evars == <<STATIC_MAX_LEVEL, smail, shandled, stmt>>

VARIABLES
    program,      \* the statements the Registry's handler in progress has left
    waiting,      \* the Registry is blocked on the reply to the request it sent
    cbox,         \* per collector process: its mailbox, oldest message first
    clog,         \* per collector process: the messages it handled, oldest first
    asking        \* the collector the emitting process waits on for a reply

nvars == <<program, waiting, cbox, clog, asking>>

nondispatch == <<rvars, bvars, cvars, mvars, svars, applied, lvars, evars, nvars, registry_reachable>>
nonregistry == <<dvars, bvars, cvars, mvars, svars, applied, lvars, evars, nvars, registry_reachable>>
nonrebuild == <<dvars, cvars, mvars, svars, applied, lvars, evars, nvars, registry_reachable>>
noncallsite == <<dvars, rvars, bvars, mvars, svars, applied, lvars, evars, nvars, registry_reachable>>
noncollect == <<dvars, bvars, cvars, svars, applied, lvars, evars, nvars, registry_reachable>>
nonsubscriber == <<dvars, bvars, cvars, mvars, applied, lvars, evars, nvars, registry_reachable>>
nonlevel == <<dvars, rvars, bvars, cvars, mvars, svars, lvars, evars, nvars, registry_reachable>>

\* ------------------------------------------------------------------------
\* dispatch.rs: pure parts of the operations
\* ------------------------------------------------------------------------

\* get_default resolving the global before the scoped slot.
get_default_global_first(sc, gl) ==
    IF gl # NoProcess THEN gl ELSE sc

\* get_default: state.scoped.borrow().or_else(|| state.global.get()), and
\* Dispatch::none() when both are None.
get_default(sc, gl) ==
    IF sc # NoProcess THEN sc
    ELSE IF gl # NoProcess THEN gl
    ELSE NoProcess

\* has_been_set: state.global.get().is_some()
has_been_set(gl) == gl # NoProcess

\* set_default keeping the new collector in the guard instead of the old one.
set_default_keep_new(sc, d) == [scoped |-> d, guard |-> d]

\* set_default that leaves the slot as it is when the dispatch has no
\* collector.
set_default_none_keeps(sc, d) ==
    [scoped |-> IF d = NoProcess THEN sc ELSE d, guard |-> sc]

\* set_default: state.scoped.replace(dispatcher.collector); the old value
\* goes into the DefaultGuard.
set_default(sc, d) == [scoped |-> d, guard |-> sc]

\* DefaultGuard::drop: *state.scoped.borrow_mut() = self.0.clone()
DefaultGuard_drop(prev) == prev

\* set_global_default: Err when global.get() is Some; otherwise the
\* collector is registered and stored only when the dispatch has one, and
\* the call returns Ok(()) in both cases.
set_global_default(gl, d) ==
    IF gl # NoProcess
    THEN [result |-> "Err", global |-> gl]
    ELSE IF d # NoProcess
         THEN [result |-> "Ok", global |-> d]
         ELSE [result |-> "Ok", global |-> gl]

\* ------------------------------------------------------------------------
\* Helpers on the guard sequence
\* ------------------------------------------------------------------------
RemoveAt(s, i) == [j \in 1..(Len(s) - 1) |-> IF j < i THEN s[j] ELSE s[j + 1]]

\* Index of the innermost with_default frame, 0 when there is none.
InnerWith ==
    LET W == {i \in 1..Len(guards) : guards[i].with}
    IN IF W = {} THEN 0 ELSE CHOOSE i \in W : \A j \in W : j <= i

\* A guard: `prev` is DefaultGuard.0; `with` tells the guard of a
\* with_default frame from one returned by set_default; `was` and `before`
\* record the scoped slot and the resolution of get_default immediately
\* before the guard was taken.
NewGuard(d, isWith) ==
    [prev |-> set_default(scoped, d).guard, with |-> isWith,
     was |-> scoped, before |-> get_default(scoped, global)]

\* The record of the last operation: `res` is the dispatch it installed or
\* returned (for a release: the slot value it overwrote), `was` and `before`
\* the scoped slot and the resolution before the matching acquisition,
\* `gwas` the global slot before a set_global_default.
NoOp == [op |-> "init", res |-> NoProcess, was |-> NoProcess,
         gwas |-> NoProcess, before |-> NoProcess]

\* ------------------------------------------------------------------------
\* Actions of the calling process (dispatch.rs)
\* ------------------------------------------------------------------------
SetDefault(d) ==
    /\ ~unwinding
    /\ Len(guards) < MaxGuards
    /\ scoped' = set_default(scoped, d).scoped
    /\ guards' = Append(guards, NewGuard(d, FALSE))
    /\ last' = [NoOp EXCEPT !.op = "set_default", !.res = d,
                            !.was = scoped, !.before = get_default(scoped, global)]
    /\ UNCHANGED <<global, unwinding, sgd, lifo>>
    /\ UNCHANGED nondispatch

\* Dropping a guard returned by set_default; the owner may drop it at any
\* time, also while a panic unwinds.
DropGuard(i) ==
    /\ i \in 1..Len(guards)
    /\ ~guards[i].with
    /\ scoped' = DefaultGuard_drop(guards[i].prev)
    /\ guards' = RemoveAt(guards, i)
    /\ lifo' = (lifo /\ i = Len(guards))
    /\ last' = [NoOp EXCEPT !.op = "drop", !.res = scoped,
                            !.was = guards[i].was,
                            !.before = guards[i].before]
    /\ UNCHANGED <<global, unwinding, sgd>>
    /\ UNCHANGED nondispatch

\* with_default, first half: `let _guard = set_default(dispatcher);` then f runs.
WithDefaultEnter(d) ==
    /\ ~unwinding
    /\ Len(guards) < MaxGuards
    /\ scoped' = set_default(scoped, d).scoped
    /\ guards' = Append(guards, NewGuard(d, TRUE))
    /\ last' = [NoOp EXCEPT !.op = "with_enter", !.res = d,
                            !.was = scoped, !.before = get_default(scoped, global)]
    /\ UNCHANGED <<global, unwinding, sgd, lifo>>
    /\ UNCHANGED nondispatch

\* with_default whose guard is released only when f returns: on a panic the
\* slot keeps the dispatch of the scope.
WithDefaultExit_no_drop_on_panic(panics) ==
    LET i == InnerWith IN
    /\ i # 0
    /\ unwinding => panics
    /\ scoped' = IF panics THEN scoped ELSE DefaultGuard_drop(guards[i].prev)
    /\ guards' = RemoveAt(guards, i)
    /\ lifo' = (lifo /\ i = Len(guards))
    /\ unwinding' = panics
    /\ last' = [op |-> IF panics THEN "with_panic" ELSE "with_return",
                res |-> scoped, was |-> guards[i].was,
                gwas |-> NoProcess, before |-> guards[i].before]
    /\ UNCHANGED <<global, sgd>>
    /\ UNCHANGED nondispatch

\* with_default, second half: f returns or panics; `_guard` is a local of
\* with_default, so it is dropped on both paths.
WithDefaultExit(panics) ==
    LET i == InnerWith IN
    /\ i # 0
    /\ unwinding => panics
    /\ scoped' = DefaultGuard_drop(guards[i].prev)
    /\ guards' = RemoveAt(guards, i)
    /\ lifo' = (lifo /\ i = Len(guards))
    /\ unwinding' = panics
    /\ last' = [op |-> IF panics THEN "with_panic" ELSE "with_return",
                res |-> scoped, was |-> guards[i].was,
                gwas |-> NoProcess, before |-> guards[i].before]
    /\ UNCHANGED <<global, sgd>>
    /\ UNCHANGED nondispatch

\* The panic is caught above the with_default frames that were unwound
\* (or the test harness reports it) and execution continues.
CatchUnwind ==
    /\ unwinding
    /\ unwinding' = FALSE
    /\ UNCHANGED <<scoped, global, guards, last, sgd, lifo>>
    /\ UNCHANGED nondispatch

SetGlobalDefault(d) ==
    /\ ~unwinding
    /\ Len(sgd) < MaxSetGlobalCalls
    /\ LET r == set_global_default(global, d) IN
        /\ global' = r.global
        /\ sgd' = Append(sgd, r.result)
        /\ last' = [NoOp EXCEPT !.op = "set_global_default", !.res = d,
                                !.gwas = global]
    /\ UNCHANGED <<scoped, guards, unwinding, lifo>>
    /\ UNCHANGED nondispatch

GetDefault ==
    /\ ~unwinding
    /\ last' = [NoOp EXCEPT !.op = "get_default",
                            !.res = get_default(scoped, global)]
    /\ UNCHANGED <<scoped, global, guards, unwinding, sgd, lifo>>
    /\ UNCHANGED nondispatch

\* get_default called from inside the closure of another get_default: the
\* outer call keeps a shared borrow of the scoped slot while f runs, and the
\* inner call resolves scoped.borrow().or_else(|| global.get()) once more;
\* `before` is what the outer closure was given, `res` what the inner one is.
GetDefaultNested ==
    /\ ~unwinding
    /\ last' = [NoOp EXCEPT !.op = "get_default_nested",
                            !.before = get_default(scoped, global),
                            !.res = get_default(scoped, global)]
    /\ UNCHANGED <<scoped, global, guards, unwinding, sgd, lifo>>
    /\ UNCHANGED nondispatch

InitDispatch ==
    /\ scoped = NoProcess
    /\ global = NoProcess
    /\ guards = <<>>
    /\ unwinding = FALSE
    /\ last = NoOp
    /\ sgd = <<>>
    /\ lifo = TRUE

NextDispatch ==
    \/ \E d \in Dispatches : SetDefault(d)
    \/ \E i \in 1..MaxGuards : DropGuard(i)
    \/ \E d \in Dispatches : WithDefaultEnter(d)
    \/ \E p \in BOOLEAN : WithDefaultExit(p)
    \/ CatchUnwind
    \/ \E d \in Dispatches : SetGlobalDefault(d)
    \/ GetDefault
    \/ GetDefaultNested


\* ------------------------------------------------------------------------
\* Level / LevelFilter (src/src/level.rs, src/src/level/filter.rs)
\* ------------------------------------------------------------------------
\* LevelInner discriminants, and LevelFilter::OFF_USIZE = Error + 1.
TRACE_USIZE == 0
DEBUG_USIZE == 1
INFO_USIZE == 2
WARN_USIZE == 3
ERROR_USIZE == 4
OFF_USIZE == ERROR_USIZE + 1
\* LevelFilter::UNSET_USIZE = usize::MAX, written as the all-ones word; it
\* is only ever compared for equality.
UNSET_USIZE == -1

\* A LevelFilter is modelled by filter_as_usize of it; an Option<T> by a
\* sequence of length 0 (None) or 1 (Some).
LevelFilters == TRACE_USIZE..OFF_USIZE
None == <<>>
Some(x) == <<x>>

\* Option::unwrap_or
unwrap_or(o, dflt) == IF o = None THEN dflt ELSE o[1]

\* impl PartialOrd for LevelFilter, gt:
\* filter_as_usize(&other.0) > filter_as_usize(&self.0)
LevelFilter_gt(self, other) == other > self

\* impl Serialize for LevelInner: serialize_u8(*self as u8)
LevelInner_serialize(level) == level

\* impl Deserialize for LevelInner: every u8 in 0..=4 gives LevelInner::Trace.
LevelInner_deserialize(n) == TRACE_USIZE

\* What the requester of DispatchMessage::MaxLevelHint receives for the
\* Option<LevelFilter> the collector replied.  The reply travels as JSON
\* (MessageRequest<(), Option<LevelFilter>, serializer::Json>):
\* LevelFilter(Option<Level>) and Level(LevelInner) are newtypes, so None and
\* Some(OFF) are both written as null and read back as None, and a level is
\* written by LevelInner::serialize and read back by LevelInner::deserialize.
MaxLevelHint_reply(hint) ==
    IF hint = None \/ hint = Some(OFF_USIZE)
    THEN None
    ELSE Some(LevelInner_deserialize(LevelInner_serialize(hint[1])))

\* LevelFilter::set_max: the value stored into MAX_LEVEL.
LevelFilter_set_max(filter) == filter

\* ------------------------------------------------------------------------
\* Level and LevelFilter: comparison, Display and FromStr
\* (src/src/level.rs, src/src/level/filter.rs)
\* ------------------------------------------------------------------------
\* A Level is modelled by `self.0 as usize`, a LevelFilter value by the
\* Option<Level> it wraps.
LevelFilter_OFF == None
LevelFilter_ERROR == Some(ERROR_USIZE)
LevelFilter_WARN == Some(WARN_USIZE)
LevelFilter_INFO == Some(INFO_USIZE)
LevelFilter_DEBUG == Some(DEBUG_USIZE)
LevelFilter_TRACE == Some(TRACE_USIZE)

LevelFilterValues ==
    {LevelFilter_OFF, LevelFilter_ERROR, LevelFilter_WARN, LevelFilter_INFO,
     LevelFilter_DEBUG, LevelFilter_TRACE}

\* fn filter_as_usize(x: &Option<Level>) -> usize
filter_as_usize(x) == IF x = None THEN OFF_USIZE ELSE x[1]

\* usize::cmp
usize_cmp(a, b) ==
    IF a < b THEN "Less" ELSE IF a = b THEN "Equal" ELSE "Greater"

\* Mutation of Level_PartialOrd: `<` compares the discriminants the other
\* way round.
Level_PartialOrd_lt_by_discriminant(op, self, other) ==
    CASE op = "lt" -> self < other
      [] op = "le" -> other <= self
      [] op = "gt" -> other > self
      [] op = "ge" -> other >= self
      [] op = "cmp" -> usize_cmp(other, self)
      [] op = "partial_cmp" -> Some(usize_cmp(other, self))
      [] op = "eq" -> self = other

\* impl PartialOrd for Level, impl Ord for Level and the derived PartialEq:
\* `op` is the method, the operands are `self.0 as usize`.
Level_PartialOrd(op, self, other) ==
    CASE op = "lt" -> other < self
      [] op = "le" -> other <= self
      [] op = "gt" -> other > self
      [] op = "ge" -> other >= self
      [] op = "cmp" -> usize_cmp(other, self)
      [] op = "partial_cmp" -> Some(usize_cmp(other, self))
      [] op = "eq" -> self = other

\* impl PartialOrd for LevelFilter, impl Ord for LevelFilter and the derived
\* PartialEq, on the wrapped Option<Level>.
LevelFilter_PartialOrd(op, self, other) ==
    CASE op = "lt" -> filter_as_usize(other) < filter_as_usize(self)
      [] op = "le" -> filter_as_usize(other) <= filter_as_usize(self)
      [] op = "gt" -> LevelFilter_gt(filter_as_usize(self),
                                     filter_as_usize(other))
      [] op = "ge" -> filter_as_usize(other) >= filter_as_usize(self)
      [] op = "cmp" -> usize_cmp(filter_as_usize(other), filter_as_usize(self))
      [] op = "partial_cmp" ->
             Some(usize_cmp(filter_as_usize(other), filter_as_usize(self)))
      [] op = "eq" -> self = other

\* impl PartialEq<LevelFilter> for Level, impl PartialOrd<LevelFilter> for Level
Level_PartialOrd_LevelFilter(op, self, other) ==
    CASE op = "lt" -> filter_as_usize(other) < self
      [] op = "le" -> filter_as_usize(other) <= self
      [] op = "gt" -> filter_as_usize(other) > self
      [] op = "ge" -> filter_as_usize(other) >= self
      [] op = "partial_cmp" -> Some(usize_cmp(filter_as_usize(other), self))
      [] op = "eq" -> self = filter_as_usize(other)

\* impl PartialEq<Level> for LevelFilter, impl PartialOrd<Level> for LevelFilter
LevelFilter_PartialOrd_Level(op, self, other) ==
    CASE op = "lt" -> other < filter_as_usize(self)
      [] op = "le" -> other <= filter_as_usize(self)
      [] op = "gt" -> other > filter_as_usize(self)
      [] op = "ge" -> other >= filter_as_usize(self)
      [] op = "partial_cmp" -> Some(usize_cmp(other, filter_as_usize(self)))
      [] op = "eq" -> filter_as_usize(self) = other

\* A string is modelled by the sequence of its characters.
Digits == <<"0", "1", "2", "3", "4", "5", "6", "7", "8", "9">>
Uppercase == <<"A", "B", "C", "D", "E", "F", "G", "H", "I", "J", "K", "L", "M",
               "N", "O", "P", "Q", "R", "S", "T", "U", "V", "W", "X", "Y", "Z">>
Lowercase == <<"a", "b", "c", "d", "e", "f", "g", "h", "i", "j", "k", "l", "m",
               "n", "o", "p", "q", "r", "s", "t", "u", "v", "w", "x", "y", "z">>

IndexIn(seq, c) == CHOOSE i \in 1..Len(seq) : seq[i] = c

\* u8::to_ascii_lowercase on one character
to_ascii_lowercase(c) ==
    IF \E i \in 1..Len(Uppercase) : Uppercase[i] = c THEN Lowercase[IndexIn(Uppercase, c)] ELSE c

\* str::eq_ignore_ascii_case
eq_ignore_ascii_case(s, t) ==
    /\ Len(s) = Len(t)
    /\ \A i \in 1..Len(s) : to_ascii_lowercase(s[i]) = to_ascii_lowercase(t[i])

RECURSIVE decimal(_)
\* The number a non-empty sequence of digits denotes.
decimal(ds) ==
    IF ds = <<>> THEN 0
    ELSE 10 * decimal(SubSeq(ds, 1, Len(ds) - 1))
         + (IndexIn(Digits, ds[Len(ds)]) - 1)

\* str::parse::<usize>(): an optional "+" and then digits only, at least
\* one; the inputs of the model are too short to overflow a usize.
parse_usize(s) ==
    LET ds == IF s # <<>> /\ s[1] = "+" THEN Tail(s) ELSE s
    IN IF ds # <<>> /\ \A i \in 1..Len(ds) : \E j \in 1..Len(Digits) : Digits[j] = ds[i]
       THEN Some(decimal(ds)) ELSE None

\* The names of the levels as the code writes them in lower case.
STR == [error |-> <<"e", "r", "r", "o", "r">>,
        warn |-> <<"w", "a", "r", "n">>,
        info |-> <<"i", "n", "f", "o">>,
        debug |-> <<"d", "e", "b", "u", "g">>,
        trace |-> <<"t", "r", "a", "c", "e">>,
        off |-> <<"o", "f", "f">>]

\* Result<T, ParseLevelError> and Result<T, ParseLevelFilterError>
Ok(x) == [ok |-> TRUE, value |-> x]
Err == [ok |-> FALSE, value |-> "ParseError"]
ok_or(o) == IF o = None THEN Err ELSE Ok(o[1])

\* Mutation of LevelFilter_Display: the value is written as its usize.
LevelFilter_Display_as_usize(self) == <<Digits[filter_as_usize(self) + 1]>>

\* impl fmt::Display for LevelFilter
LevelFilter_Display(self) ==
    CASE self = LevelFilter_OFF -> STR.off
      [] self = LevelFilter_ERROR -> STR.error
      [] self = LevelFilter_WARN -> STR.warn
      [] self = LevelFilter_INFO -> STR.info
      [] self = LevelFilter_DEBUG -> STR.debug
      [] self = LevelFilter_TRACE -> STR.trace

\* The names a LevelFilter is parsed from: the second closure of from_str.
LevelFilter_from_name(from) ==
    CASE from = <<>> -> Some(LevelFilter_ERROR)
      [] eq_ignore_ascii_case(from, STR.error) -> Some(LevelFilter_ERROR)
      [] eq_ignore_ascii_case(from, STR.warn) -> Some(LevelFilter_WARN)
      [] eq_ignore_ascii_case(from, STR.info) -> Some(LevelFilter_INFO)
      [] eq_ignore_ascii_case(from, STR.debug) -> Some(LevelFilter_DEBUG)
      [] eq_ignore_ascii_case(from, STR.trace) -> Some(LevelFilter_TRACE)
      [] eq_ignore_ascii_case(from, STR.off) -> Some(LevelFilter_OFF)
      [] OTHER -> None

\* Mutation of LevelFilter_from_str: the empty string is no level.
LevelFilter_from_str_empty_fails(from) ==
    LET num == parse_usize(from)
        by_number ==
            IF num = None \/ num[1] > 5 THEN None
            ELSE Some(IF num[1] = 0 THEN LevelFilter_OFF
                      ELSE Some(OFF_USIZE - num[1]))
    IN IF by_number # None THEN ok_or(by_number)
       ELSE IF from = <<>> THEN Err
       ELSE ok_or(LevelFilter_from_name(from))

\* impl str::FromStr for LevelFilter: the number 0..5 first, the name next.
LevelFilter_from_str(from) ==
    LET num == parse_usize(from)
        by_number ==
            IF num = None THEN None
            ELSE CASE num[1] = 0 -> Some(LevelFilter_OFF)
                   [] num[1] = 1 -> Some(LevelFilter_ERROR)
                   [] num[1] = 2 -> Some(LevelFilter_WARN)
                   [] num[1] = 3 -> Some(LevelFilter_INFO)
                   [] num[1] = 4 -> Some(LevelFilter_DEBUG)
                   [] num[1] = 5 -> Some(LevelFilter_TRACE)
                   [] OTHER -> None
    IN IF by_number # None THEN ok_or(by_number)
       ELSE ok_or(LevelFilter_from_name(from))

\* impl str::FromStr for Level: the number 1..5 first, the name next.
Level_from_str(s) ==
    LET num == parse_usize(s)
        by_number ==
            IF num = None THEN None
            ELSE CASE num[1] = 1 -> Some(ERROR_USIZE)
                   [] num[1] = 2 -> Some(WARN_USIZE)
                   [] num[1] = 3 -> Some(INFO_USIZE)
                   [] num[1] = 4 -> Some(DEBUG_USIZE)
                   [] num[1] = 5 -> Some(TRACE_USIZE)
                   [] OTHER -> None
    IN IF by_number # None THEN ok_or(by_number)
       ELSE CASE eq_ignore_ascii_case(s, STR.error) -> Ok(ERROR_USIZE)
              [] eq_ignore_ascii_case(s, STR.warn) -> Ok(WARN_USIZE)
              [] eq_ignore_ascii_case(s, STR.info) -> Ok(INFO_USIZE)
              [] eq_ignore_ascii_case(s, STR.debug) -> Ok(DEBUG_USIZE)
              [] eq_ignore_ascii_case(s, STR.trace) -> Ok(TRACE_USIZE)
              [] OTHER -> Err

\* Level::as_str, which impl fmt::Display for Level writes as well
Level_as_str(self) ==
    CASE self = TRACE_USIZE -> <<"T", "R", "A", "C", "E">>
      [] self = DEBUG_USIZE -> <<"D", "E", "B", "U", "G">>
      [] self = INFO_USIZE -> <<"I", "N", "F", "O">>
      [] self = WARN_USIZE -> <<"W", "A", "R", "N">>
      [] self = ERROR_USIZE -> <<"E", "R", "R", "O", "R">>

\* ------------------------------------------------------------------------
\* Interest and the callsite cache (callsite.rs)
\* ------------------------------------------------------------------------
Interests == {"never", "sometimes", "always"}

\* Interest::and: the common value when both agree, sometimes otherwise.
Interest_and(a, b) == IF a = b THEN a ELSE "sometimes"

\* Callsite::set_interest that stores `always` as 1.
set_interest_always_as_sometimes(interest) ==
    IF interest = "never" THEN 0 ELSE 1

\* Callsite::set_interest: the usize stored in the callsite's cache.
set_interest(interest) ==
    IF interest = "never" THEN 0
    ELSE IF interest = "always" THEN 2
    ELSE 1

\* Callsite::interest: the Interest read from the cache.
Callsite_interest(cache) ==
    IF cache = 0 THEN "never"
    ELSE IF cache = 1 THEN "sometimes"
    ELSE "always"

RECURSIVE fold_and(_, _)
\* Iterator::fold(interest, Interest::and) over the remaining replies.
fold_and(acc, rest) ==
    IF rest = <<>> THEN acc
    ELSE fold_and(Interest_and(acc, Head(rest)), Tail(rest))

\* rebuild_callsite_interest that keeps the first collector's Interest and
\* ignores the others.
rebuild_callsite_interest_first_only(replies) ==
    set_interest(IF replies # <<>> THEN Head(replies) ELSE "never")

\* rebuild_callsite_interest: `replies` are the Interests the dispatchers'
\* register_callsite returned, in list order; the value is what set_interest
\* stores into the callsite.
rebuild_callsite_interest(replies) ==
    set_interest(IF replies # <<>>
                 THEN fold_and(Head(replies), Tail(replies))
                 ELSE "never")

\* ------------------------------------------------------------------------
\* Collectors (the Collect implementations served by Dispatch::spawn)
\* ------------------------------------------------------------------------
\* The Metadata of the callsites that register, told apart by their target.
Metas == {"app", "lib"}

\* Two collectors that filter by level alone: one with max_level_hint INFO
\* and one with max_level_hint TRACE.
ScopedKinds == {"info", "trace"}

\* The Collect implementations that are spawned: one that enables
\* everything, one that disables everything and one that filters by target.
CollectorKinds == {"always", "never", "per_callsite"}

\* collector.register_callsite(&metadata), replied by the receive loop.
Collect_register_callsite(kind, meta) ==
    CASE kind = "always" -> "always"
      [] kind = "never" -> "never"
      [] kind = "per_callsite" -> IF meta = "app" THEN "always" ELSE "sometimes"
      [] kind \in ScopedKinds -> "sometimes"

\* collector.max_level_hint(), replied by the receive loop.
Collect_max_level_hint(kind) ==
    CASE kind = "always" -> None
      [] kind = "never" -> Some(OFF_USIZE)
      [] kind = "per_callsite" -> Some(DEBUG_USIZE)
      [] kind = "info" -> Some(INFO_USIZE)
      [] kind = "trace" -> Some(TRACE_USIZE)

\* ------------------------------------------------------------------------
\* The Registry actor (callsite.rs)
\* ------------------------------------------------------------------------
\* Dispatch::register_callsite: the collector's reply, never for Dispatch::none.
Dispatch_register_callsite(d, meta) ==
    IF is_set(d) THEN Collect_register_callsite(collectors[d], meta) ELSE "never"

\* Dispatch::max_level_hint: what the requester receives, None for
\* Dispatch::none.
Dispatch_max_level_hint(d) ==
    IF is_set(d) THEN MaxLevelHint_reply(Collect_max_level_hint(collectors[d]))
    ELSE None

RECURSIVE max_level_of(_, _)
\* The `max_level` accumulated by the closure of dispatchers.retain over
\* the dispatchers that are set: level_hint =
\* max_level_hint().unwrap_or(TRACE), kept when greater than max_level.
max_level_of(max_level, ds) ==
    IF ds = <<>> THEN max_level
    ELSE LET level_hint == unwrap_or(Dispatch_max_level_hint(Head(ds)), TRACE_USIZE)
         IN max_level_of(IF LevelFilter_gt(level_hint, max_level)
                         THEN level_hint ELSE max_level,
                         Tail(ds))

\* The Interests the dispatchers return for one callsite, in list order.
Replies(ds, meta) == [i \in 1..Len(ds) |-> Dispatch_register_callsite(ds[i], meta)]

\* Registry::rebuild_interest that recomputes only the newest callsite.
Registry_rebuild_interest_newest_only(cs, ds) ==
    LET kept == SelectSeq(ds, is_set)
    IN [dispatchers |-> kept,
        callsites |-> [i \in 1..Len(cs) |->
                          IF i = Len(cs)
                          THEN [cs[i] EXCEPT !.interest =
                                  rebuild_callsite_interest(Replies(kept, cs[i].meta))]
                          ELSE cs[i]],
        max |-> LevelFilter_set_max(max_level_of(OFF_USIZE, kept))]

\* Registry::rebuild_interest: retain the dispatchers that are set while
\* taking the maximum of their hints, recompute every callsite, set_max.
Registry_rebuild_interest(cs, ds) ==
    LET kept == SelectSeq(ds, is_set)
    IN [dispatchers |-> kept,
        callsites |-> [i \in 1..Len(cs) |->
                          [cs[i] EXCEPT !.interest =
                              rebuild_callsite_interest(Replies(kept, cs[i].meta))]],
        max |-> LevelFilter_set_max(max_level_of(OFF_USIZE, kept))]

\* A register that recomputes the callsites registered before as well.
Registry_register_recomputing(cs, ds, meta) ==
    Append([i \in 1..Len(cs) |->
               [cs[i] EXCEPT !.interest =
                   rebuild_callsite_interest(Replies(ds, cs[i].meta))]],
           [meta |-> meta,
            interest |-> rebuild_callsite_interest(Replies(ds, meta))])

\* Registry::register: the callsite list after the registration.
Registry_register(cs, ds, meta) ==
    Append(cs, [meta |-> meta,
                interest |-> rebuild_callsite_interest(Replies(ds, meta))])

\* A Registry that waits for the reply of the first dispatcher only.
Answering_first_only(ds) == ds = <<>> \/ ds[1] \notin dead

\* A request to a collector returns only when the collector is alive.
Answering(ds) == \A i \in 1..Len(ds) : ds[i] \notin dead

\* Dispatch::spawn: the collector process is spawned and
\* callsite::register_dispatch sends RegisterDispatch to the Registry.
Spawn(kind) ==
    /\ Len(collectors) < MaxCollectors
    /\ registry_reachable => Len(mailbox) < MaxMailbox
    /\ collectors' = Append(collectors, kind)
    /\ mailbox' = IF registry_reachable
                  THEN Append(mailbox, [type |-> "RegisterDispatch",
                                        d |-> Len(collectors) + 1])
                  ELSE mailbox
    /\ UNCHANGED <<dead, notified, callsites, dispatchers, MAX_LEVEL, stuck,
                   handled, active>>
    /\ UNCHANGED nonregistry

\* A collector process terminates.
Kill(p) ==
    /\ p \in 1..Len(collectors)
    /\ p \notin dead
    /\ dead' = dead \cup {p}
    /\ handled' = "none"
    /\ UNCHANGED <<collectors, notified, mailbox, callsites, dispatchers,
                   MAX_LEVEL, stuck, active>>
    /\ UNCHANGED nonregistry

\* A live collector changes its filtering configuration: from now on it
\* answers register_callsite and max_level_hint as `kind` does.
Reconfigure(p, kind) ==
    /\ p \in 1..Len(collectors)
    /\ p \notin dead
    /\ collectors[p] # kind
    /\ collectors' = [collectors EXCEPT ![p] = kind]
    /\ handled' = "none"
    /\ UNCHANGED <<dead, notified, mailbox, callsites, dispatchers,
                   MAX_LEVEL, stuck, active>>
    /\ UNCHANGED nonregistry

\* Mutation of Register: the message is sent without looking the Registry up.
Register_without_lookup(m) ==
    /\ Len(mailbox) < MaxMailbox
    /\ Len(callsites)
         + Cardinality({i \in 1..Len(mailbox) : mailbox[i].type = "Register"})
         < MaxCallsites
    /\ mailbox' = Append(mailbox, [type |-> "Register", meta |-> m])
    /\ UNCHANGED <<collectors, dead, notified, callsites, dispatchers,
                   MAX_LEVEL, stuck, handled, active>>
    /\ UNCHANGED nonregistry

\* callsite::register: sends Register(registration) to the Registry that
\* REGISTRY_PROCESS.get() finds, and does nothing when it finds none.
Register(m) ==
    /\ registry_reachable => Len(mailbox) < MaxMailbox
    /\ Len(callsites)
         + Cardinality({i \in 1..Len(mailbox) : mailbox[i].type = "Register"})
         < MaxCallsites
    /\ mailbox' = IF registry_reachable
                  THEN Append(mailbox, [type |-> "Register", meta |-> m])
                  ELSE mailbox
    /\ UNCHANGED <<collectors, dead, notified, callsites, dispatchers,
                   MAX_LEVEL, stuck, handled, active>>
    /\ UNCHANGED nonregistry

\* callsite::rebuild_interest_cache: sends RebuildInterest to the Registry.
RebuildInterestCache ==
    /\ registry_reachable => Len(mailbox) < MaxMailbox
    /\ mailbox' = IF registry_reachable
                  THEN Append(mailbox, [type |-> "RebuildInterest"])
                  ELSE mailbox
    /\ UNCHANGED <<collectors, dead, notified, callsites, dispatchers,
                   MAX_LEVEL, stuck, handled, active>>
    /\ UNCHANGED nonregistry

\* Registry::rebuild_interest on the lists cs and ds: it completes when
\* every queried collector answers and never returns otherwise.
RebuildStep(op, cs, ds) ==
    IF Answering(ds)
    THEN LET r == Registry_rebuild_interest(cs, ds) IN
         /\ dispatchers' = r.dispatchers
         /\ callsites' = r.callsites
         /\ MAX_LEVEL' = r.max
         /\ stuck' = FALSE
         /\ handled' = op
    ELSE /\ dispatchers' = ds
         /\ callsites' = cs
         /\ stuck' = TRUE
         /\ handled' = op
         /\ UNCHANGED MAX_LEVEL

\* MessageHandler<RebuildInterest>
HandleRebuildInterest ==
    /\ ~stuck
    /\ mailbox # <<>>
    /\ Head(mailbox).type = "RebuildInterest"
    /\ mailbox' = Tail(mailbox)
    /\ RebuildStep("rebuild", callsites, dispatchers)
    /\ UNCHANGED <<collectors, dead, notified, active>>
    /\ UNCHANGED nonregistry

\* MessageHandler<RegisterDispatch>: on_register_dispatch, push, rebuild.
HandleRegisterDispatch ==
    /\ ~stuck
    /\ mailbox # <<>>
    /\ Head(mailbox).type = "RegisterDispatch"
    /\ mailbox' = Tail(mailbox)
    /\ notified' = IF is_set(Head(mailbox).d)
                   THEN notified \cup {Head(mailbox).d} ELSE notified
    /\ RebuildStep("register_dispatch", callsites,
                   Append(dispatchers, Head(mailbox).d))
    /\ active' = IF Answering(Append(dispatchers, Head(mailbox).d))
                 THEN active \cup {Head(mailbox).d} ELSE active
    /\ UNCHANGED <<collectors, dead>>
    /\ UNCHANGED nonregistry

\* MessageHandler<Register>: Registry::register.
HandleRegister ==
    /\ ~stuck
    /\ mailbox # <<>>
    /\ Head(mailbox).type = "Register"
    /\ mailbox' = Tail(mailbox)
    /\ IF Answering(dispatchers)
       THEN /\ callsites' = Registry_register(callsites, dispatchers,
                                              Head(mailbox).meta)
            /\ stuck' = FALSE
       ELSE /\ stuck' = TRUE
            /\ UNCHANGED callsites
    /\ handled' = "register"
    /\ UNCHANGED <<collectors, dead, notified, dispatchers, MAX_LEVEL, active>>
    /\ UNCHANGED nonregistry

\* AbstractProcess::init of the Registry; MAX_LEVEL starts as UNSET_USIZE.
InitRegistry ==
    /\ collectors = <<>>
    /\ dead = {}
    /\ notified = {}
    /\ mailbox = <<>>
    /\ callsites = <<>>
    /\ dispatchers = <<>>
    /\ MAX_LEVEL = UNSET_USIZE
    /\ stuck = FALSE
    /\ handled = "none"
    /\ active = {}

NextRegistry ==
    \/ \E k \in CollectorKinds : Spawn(k)
    \/ \E p \in Pids : Kill(p)
    \/ \E p \in Pids, k \in CollectorKinds : Reconfigure(p, k)
    \/ \E m \in Metas : Register(m)
    \/ RebuildInterestCache
    \/ HandleRebuildInterest
    \/ HandleRegisterDispatch
    \/ HandleRegister

\* Collectors of one kind that are spawned and end, callsites of one target
\* and rebuild requests: what the Registry waits on does not depend on the
\* answers.
NextWait ==
    \/ Spawn("info")
    \/ \E p \in Pids : Kill(p)
    \/ Register("app")
    \/ RebuildInterestCache
    \/ HandleRebuildInterest
    \/ HandleRegisterDispatch
    \/ HandleRegister

\* ------------------------------------------------------------------------
\* Registry::rebuild_interest, one write at a time
\* ------------------------------------------------------------------------
\* The first statement of rebuild_interest on the dispatcher list ds:
\* dispatchers.retain asks every dispatcher that is set for its hint and
\* folds the hints into the local max_level; nothing is published yet.
RebuildRetain(ds) ==
    IF Answering(ds)
    THEN /\ dispatchers' = SelectSeq(ds, is_set)
         /\ rebuild_max_level' = max_level_of(OFF_USIZE, SelectSeq(ds, is_set))
         /\ pc' = "callsites"
         /\ stale' = 1..Len(callsites)
         /\ published' = FALSE
         /\ stuck' = FALSE
    ELSE /\ dispatchers' = ds
         /\ stuck' = TRUE
         /\ UNCHANGED bvars

\* MessageHandler<RebuildInterest>, up to the end of dispatchers.retain.
BeginRebuildInterest ==
    /\ ~stuck
    /\ pc = "idle"
    /\ mailbox # <<>>
    /\ Head(mailbox).type = "RebuildInterest"
    /\ mailbox' = Tail(mailbox)
    /\ RebuildRetain(dispatchers)
    /\ handled' = "none"
    /\ UNCHANGED <<collectors, dead, notified, callsites, MAX_LEVEL, active>>
    /\ UNCHANGED nonrebuild

\* Mutation of BeginRegisterDispatch: the handler also starts while a
\* rebuild_interest is in progress, runs to its end there, and the
\* interrupted rebuild then goes on with what it had computed.
BeginRegisterDispatch_while_running ==
    /\ ~stuck
    /\ mailbox # <<>>
    /\ Head(mailbox).type = "RegisterDispatch"
    /\ mailbox' = Tail(mailbox)
    /\ notified' = IF is_set(Head(mailbox).d)
                   THEN notified \cup {Head(mailbox).d} ELSE notified
    /\ IF pc = "idle"
       THEN /\ RebuildRetain(Append(dispatchers, Head(mailbox).d))
            /\ UNCHANGED <<callsites, MAX_LEVEL>>
       ELSE LET r == Registry_rebuild_interest(
                         callsites, Append(dispatchers, Head(mailbox).d)) IN
            /\ dispatchers' = r.dispatchers
            /\ callsites' = r.callsites
            /\ MAX_LEVEL' = r.max
            /\ UNCHANGED stuck
            /\ UNCHANGED bvars
    /\ active' = IF Answering(Append(dispatchers, Head(mailbox).d))
                 THEN active \cup {Head(mailbox).d} ELSE active
    /\ handled' = "none"
    /\ UNCHANGED <<collectors, dead>>
    /\ UNCHANGED nonrebuild

\* MessageHandler<RegisterDispatch>, up to the end of dispatchers.retain.
BeginRegisterDispatch ==
    /\ ~stuck
    /\ pc = "idle"
    /\ mailbox # <<>>
    /\ Head(mailbox).type = "RegisterDispatch"
    /\ mailbox' = Tail(mailbox)
    /\ notified' = IF is_set(Head(mailbox).d)
                   THEN notified \cup {Head(mailbox).d} ELSE notified
    /\ RebuildRetain(Append(dispatchers, Head(mailbox).d))
    /\ active' = IF Answering(Append(dispatchers, Head(mailbox).d))
                 THEN active \cup {Head(mailbox).d} ELSE active
    /\ handled' = "none"
    /\ UNCHANGED <<collectors, dead, callsites, MAX_LEVEL>>
    /\ UNCHANGED nonrebuild

\* MessageHandler<Register> is taken between two rebuilds only: the
\* Registry handles one message at a time.
RegisterBetweenRebuilds ==
    /\ pc = "idle"
    /\ HandleRegister

Min(S) == CHOOSE x \in S : \A y \in S : x <= y

\* One iteration of callsites.iter().for_each(rebuild_callsite_interest):
\* the next callsite asks every dispatcher and its cache is rewritten.
RebuildCallsite ==
    /\ ~stuck
    /\ pc = "callsites"
    /\ stale # {}
    /\ IF Answering(dispatchers)
       THEN /\ callsites' =
                [callsites EXCEPT ![Min(stale)].interest =
                    rebuild_callsite_interest(
                        Replies(dispatchers, callsites[Min(stale)].meta))]
            /\ stale' = stale \ {Min(stale)}
            /\ UNCHANGED stuck
       ELSE /\ stuck' = TRUE
            /\ UNCHANGED <<callsites, stale>>
    /\ UNCHANGED <<collectors, dead, notified, mailbox, dispatchers,
                   MAX_LEVEL, handled, active>>
    /\ UNCHANGED <<pc, rebuild_max_level, published>>
    /\ UNCHANGED nonrebuild

\* Mutation of RebuildPublish: the max level is stored while callsites are
\* still waiting to be rewritten.
RebuildPublish_before_callsites ==
    /\ ~stuck
    /\ pc = "callsites"
    /\ MAX_LEVEL' = LevelFilter_set_max(rebuild_max_level)
    /\ published' = TRUE
    /\ pc' = IF stale = {} THEN "idle" ELSE "callsites"
    /\ handled' = IF stale = {} THEN "rebuild" ELSE handled
    /\ UNCHANGED <<collectors, dead, notified, mailbox, callsites,
                   dispatchers, stuck, active>>
    /\ UNCHANGED <<rebuild_max_level, stale>>
    /\ UNCHANGED nonrebuild

\* The last statement of rebuild_interest: LevelFilter::set_max(max_level),
\* reached when the for_each over the callsites has returned.
RebuildPublish ==
    /\ ~stuck
    /\ pc = "callsites"
    /\ stale = {}
    /\ MAX_LEVEL' = LevelFilter_set_max(rebuild_max_level)
    /\ published' = TRUE
    /\ pc' = "idle"
    /\ handled' = "rebuild"
    /\ UNCHANGED <<collectors, dead, notified, mailbox, callsites,
                   dispatchers, stuck, active>>
    /\ UNCHANGED <<rebuild_max_level, stale>>
    /\ UNCHANGED nonrebuild

\* No rebuild has begun: MAX_LEVEL still holds its initial value.
InitRebuild ==
    /\ pc = "idle"
    /\ rebuild_max_level = OFF_USIZE
    /\ stale = {}
    /\ published = TRUE

\* The collectors stay alive here; a Registry waiting on a dead collector is
\* part of NextRegistry.
NextRebuild ==
    \/ \E k \in CollectorKinds : Spawn(k)
    \/ \E p \in Pids, k \in CollectorKinds : Reconfigure(p, k)
    \/ \E m \in Metas : Register(m)
    \/ RebuildInterestCache
    \/ BeginRebuildInterest
    \/ BeginRegisterDispatch
    \/ RegisterBetweenRebuilds
    \/ RebuildCallsite
    \/ RebuildPublish

\* ------------------------------------------------------------------------
\* The Callsite of an emitting process (callsite.rs)
\* ------------------------------------------------------------------------
\* Callsite::new stores the constant 0xDEADFACED in the cache. Callsite::interest
\* only tells 0, 1 and 2 from every other value, so the model stores the
\* smallest other value.
UNINITIALIZED == 3

\* Levels a Metadata can carry (LevelInner), as their usize representation.
Levels == TRACE_USIZE..ERROR_USIZE

Metadatas == [target : Metas, level : Levels]

\* #[derive(Serialize, Deserialize)] of Metadata: what the receiver of a
\* message that carries a copy of m reads.
Metadata_roundtrip(m) ==
    [m EXCEPT !.level = LevelInner_deserialize(LevelInner_serialize(m.level))]

\* Collect::enabled of the three collectors: the third one enables all of
\* "app" and whatever its hint DEBUG lets through.
Collect_enabled(kind, m) ==
    CASE kind = "always" -> TRUE
      [] kind = "never" -> FALSE
      [] kind = "info" -> ~LevelFilter_gt(m.level, INFO_USIZE)
      [] kind = "trace" -> TRUE
      [] OTHER -> m.target = "app" \/ ~LevelFilter_gt(m.level, DEBUG_USIZE)

\* Dispatch::enabled: a request to the collector with a copy of the
\* metadata, false on the None dispatch.
Dispatch_enabled(d, m) ==
    IF is_set(d) THEN Collect_enabled(collectors[d], Metadata_roundtrip(m))
    ELSE FALSE

\* Callsite::is_enabled in the context (sc, gl): the answer and the dispatch
\* whose collector was asked (NoProcess when nothing was sent).
Callsite_is_enabled(interest, m, sc, gl) ==
    IF interest = "always"
    THEN [res |-> TRUE, asked |-> NoProcess]
    ELSE [res |-> Dispatch_enabled(get_default(sc, gl), m),
          asked |-> get_default(sc, gl)]

NoCallsite == <<>>

\* `default` is the current default dispatch when the call was made.
NoCall == [op |-> "none", cache |-> UNINITIALIZED, interest |-> "never",
           default |-> NoProcess, res |-> FALSE, asked |-> NoProcess,
           registry |-> 0, delivered |-> NoProcess]

\* A Dispatch handle exists only for a collector that was spawned.
Handles == {NoProcess} \cup (1..Len(collectors))

\* A request to the collector of d returns.
Replying(d) == ~is_set(d) \/ d \notin dead

\* Callsite::new(metadata)
CallsiteNew(m) ==
    /\ callsite = NoCallsite
    /\ callsite' = [metadata |-> m, interest |-> UNINITIALIZED]
    /\ call' = [NoCall EXCEPT !.op = "new"]
    /\ UNCHANGED noncallsite

\* Callsite::set_interest(interest)
CallsiteSetInterest(interest) ==
    /\ callsite # NoCallsite
    /\ callsite' = [callsite EXCEPT !.interest = set_interest(interest)]
    /\ call' = [NoCall EXCEPT !.op = "set_interest", !.cache = callsite.interest]
    /\ UNCHANGED noncallsite

\* Callsite::interest(): a load of the cache and a match on it; the Registry's
\* mailbox and the cache stay as they are.
CallsiteInterest ==
    /\ callsite # NoCallsite
    /\ UNCHANGED callsite
    /\ UNCHANGED noncallsite
    /\ call' = [NoCall EXCEPT !.op = "interest", !.cache = callsite.interest,
                              !.interest = Callsite_interest(callsite.interest),
                              !.registry = Len(mailbox') - Len(mailbox)]

\* Callsite::is_enabled(interest)
CallsiteIsEnabled(interest) ==
    /\ callsite # NoCallsite
    /\ LET r == Callsite_is_enabled(interest, callsite.metadata, scoped, global)
       IN /\ Replying(r.asked)
          /\ call' = [NoCall EXCEPT !.op = "is_enabled",
                                    !.cache = callsite.interest,
                                    !.interest = interest,
                                    !.default = get_default(scoped, global),
                                    !.res = r.res, !.asked = r.asked]
    /\ UNCHANGED callsite
    /\ UNCHANGED noncallsite

\* An event at the callsite: the emission is gated by
\* `!interest.is_never() && CALLSITE.is_enabled(interest)` with the interest
\* interest() returned, and an enabled event goes through get_default to
\* Dispatch::event, which sends it to the collector of a dispatch that is set.
CallsiteEmit ==
    /\ callsite # NoCallsite
    /\ LET interest == Callsite_interest(callsite.interest)
           r == IF interest = "never"
                THEN [res |-> FALSE, asked |-> NoProcess]
                ELSE Callsite_is_enabled(interest, callsite.metadata,
                                         scoped, global)
       IN /\ Replying(r.asked)
          /\ call' = [NoCall EXCEPT !.op = "event",
                                    !.cache = callsite.interest,
                                    !.interest = interest,
                                    !.default = get_default(scoped, global),
                                    !.res = r.res, !.asked = r.asked,
                                    !.delivered =
                                        IF r.res THEN get_default(scoped, global)
                                        ELSE NoProcess]
    /\ UNCHANGED callsite
    /\ UNCHANGED noncallsite

InitCallsite ==
    /\ callsite = NoCallsite
    /\ call = NoCall

\* An emitting process with one callsite, the collectors it can install as
\* its default, and the Registry that learns of each collector.
NextCallsite ==
    \/ \E k \in CollectorKinds : Spawn(k)
    \/ HandleRegisterDispatch
    \/ \E d \in Handles : SetGlobalDefault(d)
    \/ \E m \in Metadatas : CallsiteNew(m)
    \/ \E i \in Interests : CallsiteSetInterest(i)
    \/ CallsiteInterest
    \/ \E i \in Interests : CallsiteIsEnabled(i)
    \/ CallsiteEmit

\* ------------------------------------------------------------------------
\* Dispatch operations and the receive loop of a collector (dispatch.rs)
\* ------------------------------------------------------------------------
\* Operations that wait for a reply (collector.request) and operations that
\* only send (collector.send).
RequestOps == {"register_callsite", "max_level_hint", "new_span", "enabled",
               "try_close", "current_span"}

SendOps == {"on_register_dispatch", "record", "record_follows_from", "event",
            "enter", "exit", "clone_span"}

\* Processes that call Dispatch operations.
Producers == {"p1", "p2"}

\* span::Id::from_u64(0xDEAD), the id new_span makes up on the None dispatch.
SPAN_DEAD == 57005

SpanIds == {1, 2}

NoArg == "()"
Unit == "()"

\* Arguments an operation can be called with: a Metadata (also as the
\* content of Attributes and of an Event), a span id, or nothing.
ArgsOf(op) ==
    CASE op \in {"register_callsite", "enabled", "new_span", "event"} -> Metadatas
      [] op \in {"try_close", "enter", "exit", "clone_span", "record",
                 "record_follows_from"} -> SpanIds
      [] OTHER -> {NoArg}

\* Mutation of Dispatch_none: enabled answers true on the None dispatch.
Dispatch_none_enabled_true(op, arg) ==
    CASE op = "register_callsite" -> "never"
      [] op = "max_level_hint" -> None
      [] op = "new_span" -> SPAN_DEAD
      [] op = "enabled" -> TRUE
      [] op = "try_close" -> FALSE
      [] op = "current_span" -> "none"
      [] op = "clone_span" -> arg
      [] OTHER -> Unit

\* What each operation returns when self.collector is None.
Dispatch_none(op, arg) ==
    CASE op = "register_callsite" -> "never"
      [] op = "max_level_hint" -> None
      [] op = "new_span" -> SPAN_DEAD
      [] op = "enabled" -> FALSE
      [] op = "try_close" -> FALSE
      [] op = "current_span" -> "none"
      [] op = "clone_span" -> arg
      [] OTHER -> Unit

\* The span methods of the three collectors.
Collect_new_span(kind, m) == IF kind = "per_callsite" THEN 2 ELSE 1

Collect_try_close(kind, id) == kind # "never" /\ id = 1

Collect_current_span(kind) == IF kind = "always" THEN "unknown" ELSE "none"

\* The value the method of the collector produces for the argument it is
\* given.
Collect_method(kind, op, arg) ==
    CASE op = "register_callsite" -> Collect_register_callsite(kind, arg.target)
      [] op = "max_level_hint" -> Collect_max_level_hint(kind)
      [] op = "new_span" -> Collect_new_span(kind, arg)
      [] op = "enabled" -> Collect_enabled(kind, arg)
      [] op = "try_close" -> Collect_try_close(kind, arg)
      [] op = "current_span" -> Collect_current_span(kind)
      [] OTHER -> Unit

\* The argument as the collector reads it from the message (serializer::Json).
Request_roundtrip(op, arg) ==
    IF op \in {"register_callsite", "enabled", "new_span", "event"}
    THEN Metadata_roundtrip(arg) ELSE arg

\* The reply as the requester reads it (serializer::Json).
Reply_roundtrip(op, v) ==
    IF op = "max_level_hint" THEN MaxLevelHint_reply(v) ELSE v

NoRequest == <<>>

NoReturn == [by |-> "p1", op |-> "none", arg |-> NoArg, d |-> NoProcess,
             value |-> Unit, sent |-> 0, waited |-> FALSE]

\* A request/reply operation of producer c on the dispatch d: the default
\* at once when d is None, otherwise the request is sent and c waits.
Request(c, d, op, arg) ==
    /\ pending[c] = NoRequest
    /\ IF is_set(d)
       THEN /\ d \notin dead
            /\ inbox' = [inbox EXCEPT ![d] =
                            Append(@, [op |-> op, arg |-> arg, from |-> c,
                                       n |-> 0])]
            /\ pending' = [pending EXCEPT ![c] =
                              [op |-> op, arg |-> arg, d |-> d]]
            /\ UNCHANGED ret
       ELSE /\ ret' = [NoReturn EXCEPT !.by = c, !.op = op, !.arg = arg,
                                       !.value = Dispatch_none(op, arg)]
            /\ UNCHANGED <<inbox, pending>>
    /\ UNCHANGED <<nsent, seen, inorder>>
    /\ UNCHANGED <<rvars, noncollect>>

\* A fire-and-forget operation of producer c on the dispatch d: it returns
\* as soon as the message is sent, or at once when d is None.
Send(c, d, op, arg) ==
    /\ pending[c] = NoRequest
    /\ IF is_set(d)
       THEN /\ nsent[c] < MaxSends
            /\ inbox' = [inbox EXCEPT ![d] =
                            Append(@, [op |-> op, arg |-> arg, from |-> c,
                                       n |-> nsent[c] + 1])]
            /\ nsent' = [nsent EXCEPT ![c] = @ + 1]
       ELSE UNCHANGED <<inbox, nsent>>
    /\ ret' = [NoReturn EXCEPT !.by = c, !.op = op, !.arg = arg, !.d = d,
                               !.value = IF op = "clone_span" THEN arg ELSE Unit,
                               !.sent = IF is_set(d) THEN 1 ELSE 0]
    /\ UNCHANGED <<pending, seen, inorder>>
    /\ UNCHANGED <<rvars, noncollect>>

\* Mutation of Receive: the loop handles the newest message first.
Receive_newest_first(p) ==
    /\ p \in 1..Len(collectors)
    /\ p \notin dead
    /\ inbox[p] # <<>>
    /\ LET m == inbox[p][Len(inbox[p])] IN
       /\ inbox' = [inbox EXCEPT ![p] = SubSeq(@, 1, Len(@) - 1)]
       /\ IF m.op \in RequestOps
          THEN /\ ret' = [NoReturn EXCEPT
                             !.by = m.from, !.op = m.op,
                             !.arg = pending[m.from].arg, !.d = p,
                             !.value = Reply_roundtrip(m.op,
                                 Collect_method(collectors[p], m.op,
                                     Request_roundtrip(m.op, m.arg))),
                             !.sent = 1, !.waited = TRUE]
               /\ pending' = [pending EXCEPT ![m.from] = NoRequest]
               /\ UNCHANGED <<seen, inorder>>
          ELSE /\ seen' = [seen EXCEPT ![p][m.from] = m.n]
               /\ inorder' = (inorder /\ m.n > seen[p][m.from])
               /\ UNCHANGED <<ret, pending>>
    /\ UNCHANGED nsent
    /\ UNCHANGED <<rvars, noncollect>>

\* One iteration of the loop in Dispatch::spawn: mailbox.receive() hands out
\* the oldest message, the matching method of the collector runs, and a
\* request is answered to the process that sent it.
Receive(p) ==
    /\ p \in 1..Len(collectors)
    /\ p \notin dead
    /\ inbox[p] # <<>>
    /\ LET m == Head(inbox[p]) IN
       /\ inbox' = [inbox EXCEPT ![p] = Tail(@)]
       /\ IF m.op \in RequestOps
          THEN /\ ret' = [NoReturn EXCEPT
                             !.by = m.from, !.op = m.op,
                             !.arg = pending[m.from].arg, !.d = p,
                             !.value = Reply_roundtrip(m.op,
                                 Collect_method(collectors[p], m.op,
                                     Request_roundtrip(m.op, m.arg))),
                             !.sent = 1, !.waited = TRUE]
               /\ pending' = [pending EXCEPT ![m.from] = NoRequest]
               /\ UNCHANGED <<seen, inorder>>
          ELSE /\ seen' = [seen EXCEPT ![p][m.from] = m.n]
               /\ inorder' = (inorder /\ m.n > seen[p][m.from])
               /\ UNCHANGED <<ret, pending>>
    /\ UNCHANGED nsent
    /\ UNCHANGED <<rvars, noncollect>>

InitCollect ==
    /\ inbox = [p \in Pids |-> <<>>]
    /\ pending = [c \in Producers |-> NoRequest]
    /\ ret = NoReturn
    /\ nsent = [c \in Producers |-> 0]
    /\ seen = [p \in Pids |-> [c \in Producers |-> 0]]
    /\ inorder = TRUE

\* Producers that never set a dispatch: every operation goes to what
\* get_default resolves to.
NextNone ==
    \/ \E c \in Producers, op \in RequestOps : \E arg \in ArgsOf(op) :
          Request(c, get_default(scoped, global), op, arg)
    \/ \E c \in Producers, op \in SendOps : \E arg \in ArgsOf(op) :
          Send(c, get_default(scoped, global), op, arg)

\* Producers sending requests to live collectors.
NextRequest ==
    \/ \E k \in CollectorKinds : Spawn(k)
    \/ \E c \in Producers, d \in Pids, op \in RequestOps : \E arg \in ArgsOf(op) :
          /\ d \in Handles
          /\ Request(c, d, op, arg)
    \/ \E p \in Pids : Receive(p)

\* Events and span entries and exits, as the producers of NextFifo send them.
FifoOps == {"event", "enter", "exit"}

FifoArg(op) == IF op = "event" THEN [target |-> "app", level |-> INFO_USIZE]
               ELSE 1

\* Producers sending events and span entries and exits to live collectors.
\* What a collector answers to requests plays no part here.
NextFifo ==
    \/ Spawn("always")
    \/ \E c \in Producers, d \in Pids, op \in FifoOps :
          /\ d \in Handles
          /\ Send(c, d, op, FifoArg(op))
    \/ \E p \in Pids : Receive(p)

\* Processes on a node where Registry::start was never called: collectors
\* are spawned, callsites are built and registered, rebuilds are asked for.
NextNoRegistry ==
    \/ \E k \in CollectorKinds : Spawn(k)
    \/ \E p \in Pids : Kill(p)
    \/ \E p \in Pids, k \in CollectorKinds : Reconfigure(p, k)
    \/ \E m \in Metas : Register(m)
    \/ RebuildInterestCache
    \/ \E m \in Metadatas : CallsiteNew(m)
    \/ \E i \in Interests : CallsiteSetInterest(i)

\* ------------------------------------------------------------------------
\* The global subscriber and LevelFilter::current
\* (src/src/subscriber.rs, src/src/level/filter.rs)
\* ------------------------------------------------------------------------
\* The Subscriber implementations that are installed: one without a level
\* hint (the default of the trait) and two that filter by level.
SubscriberKinds == {"no_hint", "info", "debug"}

\* Subscriber::max_level_hint of the three subscribers.
Subscriber_max_level_hint(kind) ==
    CASE kind = "no_hint" -> None
      [] kind = "info" -> Some(INFO_USIZE)
      [] kind = "debug" -> Some(DEBUG_USIZE)

\* The process whose static MAX_LEVEL and whose callsite are modelled.
Emitter == "p1"

\* SUBSCRIBER.get() in process c: the cached process, or else the process
\* found under SUBSCRIBER_NAME.
Subscriber_get(c) ==
    IF SUBSCRIBER[c] # NoProcess THEN SUBSCRIBER[c] ELSE named

\* LevelFilter::current() with `max` in MAX_LEVEL and `process` the result of
\* SUBSCRIBER.get(): the filter returned (as filter_as_usize of it), the
\* value MAX_LEVEL holds afterwards and whether MaxLevelHint was requested.
LevelFilter_current(max, process) ==
    IF max # UNSET_USIZE
    THEN [value |-> max, MAX_LEVEL |-> max, asked |-> FALSE]
    ELSE IF process # NoProcess
         THEN LET max_level ==
                      unwrap_or(MaxLevelHint_reply(
                                    Subscriber_max_level_hint(subscribers[process])),
                                TRACE_USIZE)
              IN [value |-> max_level,
                  MAX_LEVEL |-> LevelFilter_set_max(max_level),
                  asked |-> TRUE]
         ELSE [value |-> OFF_USIZE, MAX_LEVEL |-> max, asked |-> FALSE]

\* The LevelFilter constant that LevelFilter::current() returns for the
\* usize n it loaded.
LevelFilter_of(n) == IF n = OFF_USIZE THEN LevelFilter_OFF ELSE Some(n)

\* A level gate that compares with STATIC_MAX_LEVEL only.
level_enabled_static_only(lvl, current) ==
    Level_PartialOrd_LevelFilter("le", lvl, STATIC_MAX_LEVEL)

\* macro level_enabled!($lvl) with `current` the filter LevelFilter::current()
\* returned, as filter_as_usize of it.
level_enabled(lvl, current) ==
    /\ Level_PartialOrd_LevelFilter("le", lvl, STATIC_MAX_LEVEL)
    /\ Level_PartialOrd_LevelFilter("le", lvl, LevelFilter_of(current))

\* `began` is the number of calls that had returned when this one began.
NotInInit == [at |-> "idle", subscriber |-> "none", began |-> 0]

\* Calls of init_subscriber that have not returned.
InInit == {c \in Producers : init_pc[c].at # "idle"}

\* Mutation of InitSubscriberBegin: the subscriber is installed whether or
\* not SUBSCRIBER.get() finds one.
InitSubscriberBegin_unchecked(c, kind) ==
    /\ init_pc[c].at = "idle"
    /\ Len(inits) + Cardinality(InInit) < MaxInits
    /\ Len(subscribers) + Cardinality(InInit) < MaxSubscribers
    /\ init_pc' = [init_pc EXCEPT ![c] = [at |-> "spawn", subscriber |-> kind,
                                          began |-> Len(inits)]]
    /\ UNCHANGED <<subscribers, named, SUBSCRIBER, inits, cur>>
    /\ UNCHANGED <<rvars, nonsubscriber>>

\* init_subscriber(subscriber) and init_subscriber_fn(subscriber) in process
\* c, up to the test of SUBSCRIBER.get(): the call returns the error when a
\* subscriber is found and goes on to install its own otherwise.
InitSubscriberBegin(c, kind) ==
    /\ init_pc[c].at = "idle"
    /\ Len(inits) + Cardinality(InInit) < MaxInits
    /\ IF Subscriber_get(c) # NoProcess
       THEN /\ inits' = Append(inits, [by |-> c, result |-> "Err",
                                       process |-> NoProcess,
                                       found |-> Subscriber_get(c),
                                       began |-> Len(inits),
                                       named |-> named])
            /\ SUBSCRIBER' = [SUBSCRIBER EXCEPT ![c] = Subscriber_get(c)]
            /\ UNCHANGED init_pc
       ELSE /\ Len(subscribers) + Cardinality(InInit) < MaxSubscribers
            /\ init_pc' = [init_pc EXCEPT ![c] =
                              [at |-> "spawn", subscriber |-> kind,
                               began |-> Len(inits)]]
            /\ UNCHANGED <<inits, SUBSCRIBER>>
    /\ UNCHANGED <<subscribers, named, cur>>
    /\ UNCHANGED <<rvars, nonsubscriber>>

\* The rest of init_subscriber: spawn_subscriber, process.register(
\* SUBSCRIBER_NAME), SUBSCRIBER.set(process), Ok(process). The name then
\* refers to the new process.
InitSubscriberInstall(c) ==
    /\ init_pc[c].at = "spawn"
    /\ subscribers' = Append(subscribers, init_pc[c].subscriber)
    /\ named' = Len(subscribers) + 1
    /\ SUBSCRIBER' = [SUBSCRIBER EXCEPT ![c] = Len(subscribers) + 1]
    /\ inits' = Append(inits, [by |-> c, result |-> "Ok",
                               process |-> Len(subscribers) + 1,
                               found |-> NoProcess,
                               began |-> init_pc[c].began,
                               named |-> named])
    /\ init_pc' = [init_pc EXCEPT ![c] = NotInInit]
    /\ UNCHANGED cur
    /\ UNCHANGED <<rvars, nonsubscriber>>

NoCurrent == [op |-> "none", before |-> UNSET_USIZE, first |-> FALSE,
              process |-> NoProcess, value |-> OFF_USIZE, asked |-> FALSE]

\* LevelFilter::current() in the emitting process. `first` tells the first
\* call of the process from the later ones.
LevelFilterCurrent ==
    /\ LET r == LevelFilter_current(MAX_LEVEL, Subscriber_get(Emitter)) IN
        /\ MAX_LEVEL' = r.MAX_LEVEL
        /\ cur' = [op |-> "current", before |-> MAX_LEVEL,
                   first |-> (cur.op = "none"),
                   process |-> Subscriber_get(Emitter),
                   value |-> r.value, asked |-> r.asked]
    /\ SUBSCRIBER' = IF MAX_LEVEL = UNSET_USIZE
                     THEN [SUBSCRIBER EXCEPT ![Emitter] = Subscriber_get(Emitter)]
                     ELSE SUBSCRIBER
    /\ UNCHANGED <<subscribers, named, init_pc, inits>>
    /\ UNCHANGED <<collectors, dead, notified, mailbox, callsites, dispatchers,
                   stuck, handled, active>>
    /\ UNCHANGED nonsubscriber

InitSubscriber ==
    /\ subscribers = <<>>
    /\ named = NoProcess
    /\ SUBSCRIBER = [c \in Producers |-> NoProcess]
    /\ init_pc = [c \in Producers |-> NotInInit]
    /\ inits = <<>>
    /\ cur = NoCurrent

\* Two processes that install subscribers; one of them reads the max level.
NextSubscriber ==
    \/ \E c \in Producers, k \in SubscriberKinds : InitSubscriberBegin(c, k)
    \/ \E c \in Producers : InitSubscriberInstall(c)
    \/ LevelFilterCurrent

\* An event of the emitting process at its callsite, behind the level gate:
\* level_enabled!(level) with LevelFilter::current(), then the callsite gate
\* `!interest.is_never() && CALLSITE.is_enabled(interest)`, then get_default
\* and Dispatch::event, which sends the event to the collector of the
\* current default dispatch.
EventMacro ==
    /\ callsite # NoCallsite
    /\ LET current == LevelFilter_current(MAX_LEVEL, Subscriber_get(Emitter))
           interest == Callsite_interest(callsite.interest)
           r == IF ~level_enabled(callsite.metadata.level, current.value)
                   \/ interest = "never"
                THEN [res |-> FALSE, asked |-> NoProcess]
                ELSE Callsite_is_enabled(interest, callsite.metadata,
                                         scoped, global)
       IN /\ Replying(r.asked)
          /\ MAX_LEVEL' = current.MAX_LEVEL
          /\ call' = [NoCall EXCEPT !.op = "event!",
                                    !.cache = callsite.interest,
                                    !.interest = interest,
                                    !.default = get_default(scoped, global),
                                    !.res = r.res, !.asked = r.asked,
                                    !.delivered =
                                        IF r.res THEN get_default(scoped, global)
                                        ELSE NoProcess]
    /\ SUBSCRIBER' = IF MAX_LEVEL = UNSET_USIZE
                     THEN [SUBSCRIBER EXCEPT ![Emitter] = Subscriber_get(Emitter)]
                     ELSE SUBSCRIBER
    /\ UNCHANGED <<subscribers, named, init_pc, inits, cur>>
    /\ UNCHANGED <<collectors, dead, notified, mailbox, callsites, dispatchers,
                   stuck, handled, active>>
    /\ UNCHANGED callsite
    /\ UNCHANGED <<dvars, bvars, mvars, applied, lvars, evars, nvars, registry_reachable>>

\* An emitting process with a global and a scoped default dispatch, the two
\* level-filtering collectors behind them and the Registry that learns of
\* each collector when it is spawned.  The collectors do not look at the
\* target, so the callsites differ in their level only.
NextScoped ==
    \/ \E k \in ScopedKinds : Spawn(k)
    \/ HandleRegisterDispatch
    \/ \E d \in Handles : SetGlobalDefault(d)
    \/ \E d \in Handles : SetDefault(d)
    \/ \E i \in 1..MaxGuards : DropGuard(i)
    \/ \E l \in Levels : CallsiteNew([target |-> "app", level |-> l])
    \/ EventMacro

\* LevelFilter::current() in the emitting process up to the point where it
\* waits: the load of MAX_LEVEL, and for UNSET_USIZE with a subscriber the
\* request of MaxLevelHint.  Every other case returns at once.
CurrentBegin ==
    /\ cur.op # "resolving"
    /\ IF MAX_LEVEL = UNSET_USIZE /\ Subscriber_get(Emitter) # NoProcess
       THEN /\ cur' = [op |-> "resolving", before |-> MAX_LEVEL,
                       first |-> (cur.op = "none"),
                       process |-> Subscriber_get(Emitter),
                       value |-> OFF_USIZE, asked |-> TRUE]
            /\ UNCHANGED MAX_LEVEL
       ELSE LET r == LevelFilter_current(MAX_LEVEL, Subscriber_get(Emitter)) IN
            /\ MAX_LEVEL' = r.MAX_LEVEL
            /\ cur' = [op |-> "current", before |-> MAX_LEVEL,
                       first |-> (cur.op = "none"),
                       process |-> Subscriber_get(Emitter),
                       value |-> r.value, asked |-> r.asked]
    /\ SUBSCRIBER' = IF MAX_LEVEL = UNSET_USIZE
                     THEN [SUBSCRIBER EXCEPT ![Emitter] = Subscriber_get(Emitter)]
                     ELSE SUBSCRIBER
    /\ UNCHANGED <<subscribers, named, init_pc, inits>>
    /\ UNCHANGED <<collectors, dead, notified, mailbox, callsites, dispatchers,
                   stuck, handled, active>>
    /\ UNCHANGED nonsubscriber

\* The rest of the UNSET_USIZE arm: the reply of the subscriber arrives,
\* `LevelFilter::set_max(max_level); max_level`.
CurrentFinish ==
    /\ cur.op = "resolving"
    /\ LET r == LevelFilter_current(UNSET_USIZE, cur.process) IN
        /\ MAX_LEVEL' = r.MAX_LEVEL
        /\ cur' = [cur EXCEPT !.op = "current", !.value = r.value]
    /\ UNCHANGED <<subscribers, named, SUBSCRIBER, init_pc, inits>>
    /\ UNCHANGED <<collectors, dead, notified, mailbox, callsites, dispatchers,
                   stuck, handled, active>>
    /\ UNCHANGED nonsubscriber

\* The emitting process resolves its max level while the Registry handles
\* registrations and rebuilds.
NextRace ==
    \/ \E k \in SubscriberKinds : InitSubscriberBegin(Emitter, k)
    \/ InitSubscriberInstall(Emitter)
    \/ CurrentBegin
    \/ CurrentFinish
    \/ \E k \in ScopedKinds : Spawn(k)
    \/ HandleRegisterDispatch
    \/ RebuildInterestCache
    \/ HandleRebuildInterest

\* ------------------------------------------------------------------------
\* The default-dispatcher contexts of several processes (dispatch.rs)
\* ------------------------------------------------------------------------
MaxScopes == 1           \* DefaultGuards one process holds at the same time

\* A process that starts with the context of the process that spawned it.
GlobalDispatchProcess_inherited(parent) == GLOBAL_DISPATCHER[parent]

\* process_local! GLOBAL_DISPATCHER = GlobalDispatchProcess::new(): every
\* process, whoever spawned it, starts with `scoped: RefCell::new(None)` and
\* a ProcessCached that has looked nothing up.
GlobalDispatchProcess_new(parent) == [global |-> NoProcess, scoped |-> NoProcess]

\* state.global.get() in process p: the cached process, or the lookup of
\* GLOBAL_DISPATCH_PROCESS_NAME.
ProcessCached_get(p) ==
    IF GLOBAL_DISPATCHER[p].global # NoProcess
    THEN GLOBAL_DISPATCHER[p].global ELSE global_name

\* What get_default resolves to in process p.
get_default_in(p) == get_default(GLOBAL_DISPATCHER[p].scoped, ProcessCached_get(p))

\* One operation `op` of process p on its context: set_default(d), the drop
\* of its newest guard, set_global_default(d) or get_default.
ContextOp(p, op, d) ==
    /\ p \in started
    /\ LET me == GLOBAL_DISPATCHER[p]
           r == set_global_default(ProcessCached_get(p), d)
       IN CASE op = "set_default" ->
                 /\ Len(held[p]) < MaxScopes
                 /\ GLOBAL_DISPATCHER' =
                        [GLOBAL_DISPATCHER EXCEPT
                            ![p].scoped = set_default(me.scoped, d).scoped]
                 /\ held' = [held EXCEPT
                                ![p] = Append(@, set_default(me.scoped, d).guard)]
                 /\ UNCHANGED global_name
            [] op = "drop" ->
                 /\ held[p] # <<>>
                 /\ d = NoProcess
                 /\ GLOBAL_DISPATCHER' =
                        [GLOBAL_DISPATCHER EXCEPT
                            ![p].scoped = DefaultGuard_drop(held[p][Len(held[p])])]
                 /\ held' = [held EXCEPT ![p] = SubSeq(@, 1, Len(@) - 1)]
                 /\ UNCHANGED global_name
            [] op = "set_global_default" ->
                 /\ GLOBAL_DISPATCHER' =
                        [GLOBAL_DISPATCHER EXCEPT ![p].global = r.global]
                 /\ global_name' = IF r.result = "Ok" /\ is_set(d)
                                   THEN d ELSE global_name
                 /\ UNCHANGED held
            [] op = "get_default" ->
                 /\ d = NoProcess
                 /\ GLOBAL_DISPATCHER' =
                        [GLOBAL_DISPATCHER EXCEPT
                            ![p].global = IF is_set(me.scoped) THEN @
                                          ELSE ProcessCached_get(p)]
                 /\ UNCHANGED <<held, global_name>>
    /\ plast' = [by |-> p, op |-> op, d |-> d, res |-> get_default_in(p)]
    /\ UNCHANGED started
    /\ UNCHANGED <<dvars, rvars, bvars, cvars, mvars, svars, applied,
                   evars, nvars, registry_reachable>>

\* Process p spawns process q, possibly while p holds a guard.
SpawnProcess(p, q) ==
    /\ p \in started
    /\ q \notin started
    /\ started' = started \cup {q}
    /\ GLOBAL_DISPATCHER' =
           [GLOBAL_DISPATCHER EXCEPT ![q] = GlobalDispatchProcess_new(p)]
    /\ plast' = [by |-> p, op |-> "spawn", d |-> NoProcess,
                 res |-> get_default_in(p)]
    /\ UNCHANGED <<held, global_name>>
    /\ UNCHANGED <<dvars, rvars, bvars, cvars, mvars, svars, applied,
                   evars, nvars, registry_reachable>>

ContextOps == {"set_default", "drop", "set_global_default", "get_default"}

InitContexts ==
    /\ GLOBAL_DISPATCHER = [p \in Producers |->
                               [global |-> NoProcess, scoped |-> NoProcess]]
    /\ started = {Emitter}
    /\ held = [p \in Producers |-> <<>>]
    /\ global_name = NoProcess
    /\ plast = [by |-> Emitter, op |-> "none", d |-> NoProcess, res |-> NoProcess]

NextContexts ==
    \/ \E p \in Producers, op \in ContextOps, d \in Dispatches : ContextOp(p, op, d)
    \/ \E p \in Producers, q \in Producers : SpawnProcess(p, q)

\* ------------------------------------------------------------------------
\* Events on their way to the global subscriber
\* (src/src/macros.rs, src/src/subscriber.rs, src/src/process.rs, src/src/lib.rs)
\* ------------------------------------------------------------------------
MaxEvents == 2           \* events sent to subscriber processes

\* Subscriber::enabled of the three subscribers: the one without a hint
\* enables everything, the other two compare the level with their filter
\* as FmtSubscriber does.
Subscriber_enabled(kind, metadata) ==
    CASE kind = "no_hint" -> TRUE
      [] kind = "info" ->
            Level_PartialOrd_LevelFilter("le", metadata.level, LevelFilter_INFO)
      [] kind = "debug" ->
            Level_PartialOrd_LevelFilter("le", metadata.level, LevelFilter_DEBUG)

\* An actor that calls the event handler for every event it receives.
handle_message_unfiltered(kind, event) ==
    [enabled |-> Subscriber_enabled(kind, event.metadata), called |-> TRUE]

\* The Event arm of handle_message, of MessageHandler<Dispatch> for
\* LoggingProcess and of the loop of spawn_subscriber:
\* `if subscriber.enabled(metadata) { subscriber.event(event) }`.
handle_message(kind, event) ==
    LET enabled == Subscriber_enabled(kind, event.metadata)
    IN [enabled |-> enabled, called |-> enabled]

\* The numbers of the events sent so far.
SentEvents ==
    UNION {{smail[p][i].n : i \in 1..Len(smail[p])}
           \cup {shandled[p][i].n : i \in 1..Len(shandled[p])} :
           p \in 1..MaxSubscribers}

\* subscriber::dispatch(event): the mailboxes after
\* `if let Some(subscriber) = SUBSCRIBER.get() { subscriber.send(Event(event)) }`.
dispatch(event) ==
    IF Subscriber_get(Emitter) # NoProcess
    THEN [smail EXCEPT ![Subscriber_get(Emitter)] = Append(@, event)]
    ELSE smail

NoStatement == [op |-> "none", level |-> TRACE_USIZE, current |-> OFF_USIZE,
                named |-> NoProcess, constructed |-> FALSE, to |-> NoProcess,
                n |-> 0, queued |-> FALSE]

\* The event! statement of the emitting process at level lvl:
\* `if level_enabled!(lvl) { let event = Event::new(..); dispatch(event) }`.
\* The `&&` of level_enabled! calls LevelFilter::current() only when the
\* level passes STATIC_MAX_LEVEL; `current` in the record is the value the
\* call returns at this statement.
EventStatement(lvl) ==
    /\ Cardinality(SentEvents) < MaxEvents
    /\ LET static == Level_PartialOrd_LevelFilter("le", lvl, STATIC_MAX_LEVEL)
           current == LevelFilter_current(MAX_LEVEL, Subscriber_get(Emitter))
           enabled == level_enabled(lvl, current.value)
           event == [n |-> Cardinality(SentEvents) + 1,
                     metadata |-> [target |-> "app", level |-> lvl]]
       IN /\ MAX_LEVEL' = IF static THEN current.MAX_LEVEL ELSE MAX_LEVEL
          /\ SUBSCRIBER' = IF enabled \/ (static /\ MAX_LEVEL = UNSET_USIZE)
                           THEN [SUBSCRIBER EXCEPT ![Emitter] = Subscriber_get(Emitter)]
                           ELSE SUBSCRIBER
          /\ smail' = IF enabled THEN dispatch(event) ELSE smail
          /\ stmt' = [op |-> "event!", level |-> lvl, current |-> current.value,
                      named |-> named, constructed |-> enabled,
                      to |-> IF enabled THEN Subscriber_get(Emitter) ELSE NoProcess,
                      n |-> IF enabled /\ Subscriber_get(Emitter) # NoProcess
                            THEN event.n ELSE 0,
                      queued |-> enabled /\ dispatch(event) # smail]
    /\ UNCHANGED <<STATIC_MAX_LEVEL, shandled>>
    /\ UNCHANGED <<subscribers, named, init_pc, inits, cur>>
    /\ UNCHANGED <<collectors, dead, notified, mailbox, callsites, dispatchers,
                   stuck, handled, active>>
    /\ UNCHANGED <<dvars, bvars, cvars, mvars, applied, lvars, nvars, registry_reachable>>

\* A call of the public function subscriber::dispatch with an event of
\* level lvl that the caller constructed.
SubscriberDispatch(lvl) ==
    /\ Cardinality(SentEvents) < MaxEvents
    /\ LET event == [n |-> Cardinality(SentEvents) + 1,
                     metadata |-> [target |-> "app", level |-> lvl]]
       IN /\ smail' = dispatch(event)
          /\ stmt' = [op |-> "dispatch", level |-> lvl, current |-> OFF_USIZE,
                      named |-> named, constructed |-> TRUE,
                      to |-> Subscriber_get(Emitter),
                      n |-> IF Subscriber_get(Emitter) # NoProcess
                            THEN event.n ELSE 0,
                      queued |-> dispatch(event) # smail]
    /\ SUBSCRIBER' = [SUBSCRIBER EXCEPT ![Emitter] = Subscriber_get(Emitter)]
    /\ UNCHANGED <<STATIC_MAX_LEVEL, shandled>>
    /\ UNCHANGED <<subscribers, named, init_pc, inits, cur>>
    /\ UNCHANGED rvars
    /\ UNCHANGED <<dvars, bvars, cvars, mvars, applied, lvars, nvars, registry_reachable>>

\* One iteration of the loop of subscriber process p: mailbox.receive()
\* hands out the oldest message, the event is read from it and handled.
SubscriberReceive(p) ==
    /\ p \in 1..Len(subscribers)
    /\ smail[p] # <<>>
    /\ LET message == Head(smail[p])
           event == [message EXCEPT !.metadata = Metadata_roundtrip(@)]
           h == handle_message(subscribers[p], event)
       IN /\ smail' = [smail EXCEPT ![p] = Tail(@)]
          /\ shandled' = [shandled EXCEPT ![p] =
                             Append(@, [n |-> message.n,
                                        sent |-> message.metadata,
                                        metadata |-> event.metadata,
                                        enabled |-> h.enabled,
                                        called |-> h.called])]
    /\ UNCHANGED <<STATIC_MAX_LEVEL, stmt>>
    /\ UNCHANGED <<rvars, svars>>
    /\ UNCHANGED <<dvars, bvars, cvars, mvars, applied, lvars, nvars, registry_reachable>>

InitEvents ==
    /\ smail = [p \in 1..MaxSubscribers |-> <<>>]
    /\ shandled = [p \in 1..MaxSubscribers |-> <<>>]
    /\ stmt = NoStatement

\* The emitting process installs the global subscriber, emits events and
\* calls dispatch; the subscriber processes handle what they receive.  A
\* rebuild of the Registry publishes a max level in between.
NextEvents ==
    \/ \E k \in SubscriberKinds : InitSubscriberBegin(Emitter, k)
    \/ InitSubscriberInstall(Emitter)
    \/ \E lvl \in Levels : EventStatement(lvl)
    \/ \E lvl \in {TRACE_USIZE, INFO_USIZE} : SubscriberDispatch(lvl)
    \/ \E p \in 1..MaxSubscribers : SubscriberReceive(p)
    \/ RebuildInterestCache
    \/ HandleRebuildInterest

\* ------------------------------------------------------------------------
\* The messages the Registry sends to the collectors while it handles one
\* of its own (callsite.rs, dispatch.rs)
\* ------------------------------------------------------------------------
MaxQueries == 1          \* requests the emitting process sends to collectors

\* Registry::rebuild_interest on the dispatchers ds and the callsites cs as
\* the messages it sends: max_level_hint to every dispatcher in retain,
\* register_callsite to every dispatcher for every callsite, then set_max.
rebuild_interest_statements(ds, cs) ==
    [i \in 1..Len(ds) |-> [op |-> "max_level_hint", to |-> ds[i]]]
    \o [k \in 1..(Len(cs) * Len(ds)) |->
           [op |-> "register_callsite", to |-> ds[((k - 1) % Len(ds)) + 1]]]
    \o <<[op |-> "set_max", to |-> NoProcess]>>

\* A handler of RegisterDispatch that notifies the dispatch after the
\* rebuild.
RegisterDispatch_statements_notify_last(d, ds, cs) ==
    <<[op |-> "push", to |-> d]>>
    \o rebuild_interest_statements(Append(ds, d), cs)
    \o <<[op |-> "on_register_dispatch", to |-> d]>>

\* MessageHandler<RegisterDispatch>: dispatch.on_register_dispatch(..),
\* state.dispatchers.push(dispatch), state.rebuild_interest().
RegisterDispatch_statements(d, ds, cs) ==
    <<[op |-> "on_register_dispatch", to |-> d], [op |-> "push", to |-> d]>>
    \o rebuild_interest_statements(Append(ds, d), cs)

\* Registry::register: rebuild_callsite_interest asks every dispatcher, then
\* the callsite is pushed.
Register_statements(meta, ds) ==
    [i \in 1..Len(ds) |-> [op |-> "register_callsite", to |-> ds[i]]]
    \o <<[op |-> "register", to |-> NoProcess, meta |-> meta]>>

FromRegistry == "registry"

\* The Registry takes the next message from its mailbox and begins the
\* handler of that message.
RegistryBegin ==
    /\ program = <<>>
    /\ mailbox # <<>>
    /\ mailbox' = Tail(mailbox)
    /\ program' =
          CASE Head(mailbox).type = "RegisterDispatch" ->
                  RegisterDispatch_statements(Head(mailbox).d, dispatchers, callsites)
            [] Head(mailbox).type = "Register" ->
                  Register_statements(Head(mailbox).meta, dispatchers)
            [] OTHER -> rebuild_interest_statements(dispatchers, callsites)
    /\ UNCHANGED <<waiting, cbox, clog, asking>>
    /\ UNCHANGED <<collectors, dead, notified, callsites, dispatchers,
                   MAX_LEVEL, stuck, handled, active>>
    /\ UNCHANGED <<dvars, bvars, cvars, mvars, svars, applied, lvars, evars,
                   registry_reachable>>

\* The next statement of the handler in progress.  on_register_dispatch is
\* a send and returns at once; max_level_hint and register_callsite are
\* requests, and the Registry waits for the reply.  The values the
\* collectors return are taken when the handler stores them.
RegistryStep ==
    /\ program # <<>>
    /\ ~waiting
    /\ LET s == Head(program)
           r == Registry_rebuild_interest(callsites, dispatchers)
       IN /\ cbox' = IF s.op \in {"on_register_dispatch", "max_level_hint",
                                  "register_callsite"}
                     THEN [cbox EXCEPT ![s.to] =
                              Append(@, [op |-> s.op, from |-> FromRegistry])]
                     ELSE cbox
          /\ waiting' = (s.op \in {"max_level_hint", "register_callsite"})
          /\ program' = IF s.op \in {"max_level_hint", "register_callsite"}
                        THEN program ELSE Tail(program)
          /\ notified' = IF s.op = "on_register_dispatch"
                         THEN notified \cup {s.to} ELSE notified
          /\ dispatchers' = IF s.op = "push" THEN Append(dispatchers, s.to)
                            ELSE dispatchers
          /\ callsites' = CASE s.op = "set_max" -> r.callsites
                            [] s.op = "register" ->
                                  Registry_register(callsites, dispatchers, s.meta)
                            [] OTHER -> callsites
          /\ MAX_LEVEL' = IF s.op = "set_max" THEN r.max ELSE MAX_LEVEL
    /\ UNCHANGED <<clog, asking>>
    /\ UNCHANGED <<collectors, dead, mailbox, stuck, handled, active>>
    /\ UNCHANGED <<dvars, bvars, cvars, mvars, svars, applied, lvars, evars,
                   registry_reachable>>

\* The requests the emitting process has sent to collectors.
Queries ==
    UNION {{<<p, i>> : i \in {i \in 1..Len(cbox[p]) : cbox[p][i].from = Emitter}}
           \cup {<<p, Len(cbox[p]) + i>> :
                    i \in {i \in 1..Len(clog[p]) : clog[p][i].from = Emitter}} :
           p \in Pids}

\* Dispatch::max_level_hint called by the emitting process on the handle of
\* collector p.
ProducerQuery(p) ==
    /\ p \in 1..Len(collectors)
    /\ asking = NoProcess
    /\ Cardinality(Queries) < MaxQueries
    /\ cbox' = [cbox EXCEPT ![p] = Append(@, [op |-> "max_level_hint",
                                               from |-> Emitter])]
    /\ asking' = p
    /\ UNCHANGED <<program, waiting, clog>>
    /\ UNCHANGED rvars
    /\ UNCHANGED <<dvars, bvars, cvars, mvars, svars, applied, lvars, evars,
                   registry_reachable>>

\* One iteration of the loop in Dispatch::spawn of collector p: the oldest
\* message is handled, and the reply to a request releases its sender.
CollectorReceive(p) ==
    /\ p \in 1..Len(collectors)
    /\ cbox[p] # <<>>
    /\ LET m == Head(cbox[p])
           request == m.op \in {"max_level_hint", "register_callsite"}
       IN /\ cbox' = [cbox EXCEPT ![p] = Tail(@)]
          /\ clog' = [clog EXCEPT ![p] = Append(@, m)]
          /\ waiting' = IF request /\ m.from = FromRegistry THEN FALSE ELSE waiting
          /\ program' = IF request /\ m.from = FromRegistry
                        THEN Tail(program) ELSE program
          /\ asking' = IF request /\ m.from = Emitter THEN NoProcess ELSE asking
    /\ UNCHANGED rvars
    /\ UNCHANGED <<dvars, bvars, cvars, mvars, svars, applied, lvars, evars,
                   registry_reachable>>

InitMessages ==
    /\ program = <<>>
    /\ waiting = FALSE
    /\ cbox = [p \in Pids |-> <<>>]
    /\ clog = [p \in Pids |-> <<>>]
    /\ asking = NoProcess

\* Collectors are spawned and callsites registered; the Registry handles
\* the messages while the collectors and the emitting process run.  The
\* order of the messages does not depend on what a collector answers, so
\* the collectors are of one kind and the callsites have one target.
NextMessages ==
    \/ Spawn("info")
    \/ Register("app")
    \/ RegistryBegin
    \/ RegistryStep
    \/ \E p \in Pids : ProducerQuery(p)
    \/ \E p \in Pids : CollectorReceive(p)

\* ------------------------------------------------------------------------
\* Calls of the functions of Level and LevelFilter
\* ------------------------------------------------------------------------
\* The operands of a comparison: a Level or a LevelFilter.
Operands ==
    [type : {"Level"}, value : TRACE_USIZE..ERROR_USIZE]
    \cup [type : {"LevelFilter"}, value : LevelFilterValues]

\* <, <=, >, >=, ==, partial_cmp and, between operands of one type, cmp.
CmpOps == {"lt", "le", "gt", "ge", "eq", "partial_cmp", "cmp"}

\* The impl the compiler selects for `a op b` from the types of a and b.
Compare_impl(op, a, b) ==
    CASE a.type = "Level" /\ b.type = "Level" ->
            Level_PartialOrd(op, a.value, b.value)
      [] a.type = "LevelFilter" /\ b.type = "LevelFilter" ->
            LevelFilter_PartialOrd(op, a.value, b.value)
      [] a.type = "Level" /\ b.type = "LevelFilter" ->
            Level_PartialOrd_LevelFilter(op, a.value, b.value)
      [] a.type = "LevelFilter" /\ b.type = "Level" ->
            LevelFilter_PartialOrd_Level(op, a.value, b.value)

\* Every spelling of a name in upper and lower case letters.
CaseVariants(name) ==
    {[i \in 1..Len(name) |->
         IF i \in S THEN Uppercase[IndexIn(Lowercase, name[i])] ELSE name[i]] :
       S \in SUBSET (1..Len(name))}

\* The strings handed to from_str: the names in every spelling, the empty
\* string, the one-digit numbers, and strings that are neither.
Inputs ==
    CaseVariants(STR.off) \cup CaseVariants(STR.error)
    \cup CaseVariants(STR.warn) \cup CaseVariants(STR.info)
    \cup CaseVariants(STR.debug) \cup CaseVariants(STR.trace)
    \cup {<<>>}
    \cup {<<Digits[i]>> : i \in 1..Len(Digits)}
    \cup {<<"1", "0">>, <<"-", "1">>, <<"1", ".", "0">>, <<" ", "1">>,
          <<"o", "f">>, <<"o", "f", "f", " ">>, <<"e", "r", "r">>,
          <<"n", "o", "n", "e">>, <<"w", "a", "r", "n", "i", "n", "g">>,
          <<"t", "r", "a", "c", "e", "5">>, <<"+">>, <<" ">>}

NoApplication ==
    [fn |-> "none", op |-> "none", lhs |-> <<>>, rhs |-> <<>>, result |-> <<>>]

\* a op b
Compare(op, a, b) ==
    /\ op = "cmp" => a.type = b.type
    /\ applied' = [fn |-> "compare", op |-> op, lhs |-> a, rhs |-> b,
                   result |-> Compare_impl(op, a, b)]
    /\ UNCHANGED nonlevel

\* s.parse::<Level>() and s.parse::<LevelFilter>()
FromStr(type, s) ==
    /\ applied' = [fn |-> "from_str", op |-> type, lhs |-> s, rhs |-> <<>>,
                   result |-> IF type = "Level" THEN Level_from_str(s)
                              ELSE LevelFilter_from_str(s)]
    /\ UNCHANGED nonlevel

\* filter.to_string().parse::<LevelFilter>()
DisplayThenParse(filter) ==
    /\ applied' = [fn |-> "display", op |-> "LevelFilter", lhs |-> filter,
                   rhs |-> LevelFilter_Display(filter),
                   result |-> LevelFilter_from_str(LevelFilter_Display(filter))]
    /\ UNCHANGED nonlevel

\* A Metadata, or the Option<LevelFilter> of a max_level_hint reply, sent to
\* another process: `result` is what the receiver reads.
Forward(type, x) ==
    /\ applied' = [fn |-> "forward", op |-> type, lhs |-> x, rhs |-> <<>>,
                   result |-> IF type = "Metadata" THEN Metadata_roundtrip(x)
                              ELSE MaxLevelHint_reply(x)]
    /\ UNCHANGED nonlevel

InitLevel == applied = NoApplication

NextLevel ==
    \/ \E op \in CmpOps, a \in Operands, b \in Operands : Compare(op, a, b)
    \/ \E type \in {"Level", "LevelFilter"}, s \in Inputs : FromStr(type, s)
    \/ \E filter \in LevelFilterValues : DisplayThenParse(filter)
    \/ \E m \in Metadatas : Forward("Metadata", m)
    \/ \E hint \in {LevelFilter_of(n) : n \in Levels} : Forward("LevelFilter", hint)

vars == <<dvars, rvars, bvars, cvars, mvars, svars, applied, lvars, evars, nvars, registry_reachable>>

InitBuild ==
    /\ InitDispatch /\ InitRegistry /\ InitRebuild /\ InitCallsite /\ InitCollect
    /\ InitSubscriber /\ InitLevel /\ InitContexts /\ InitEvents /\ InitMessages

\* The build with none of the max_level_* features: STATIC_MAX_LEVEL is
\* LevelFilter::TRACE.
InitProcesses == InitBuild /\ STATIC_MAX_LEVEL = LevelFilter_TRACE

\* The builds the max_level_* features select, with the Registry started.
InitFeatures ==
    /\ InitBuild
    /\ STATIC_MAX_LEVEL \in LevelFilterValues
    /\ registry_reachable = TRUE

\* Registry::start has run: the Registry is registered under its name.
Init == InitProcesses /\ registry_reachable = TRUE

\* Registry::start has not run: the lookup of the name finds nothing.
InitNoRegistry == InitProcesses /\ registry_reachable = FALSE

\* The calling process and its default-dispatcher context.
SpecDispatch == Init /\ [][NextDispatch]_vars

\* The Registry, the collectors and the processes that send to the Registry.
SpecRegistry == Init /\ [][NextRegistry]_vars

\* The Registry is a process of its own that the scheduler keeps running:
\* a handler whose message is at the head of the mailbox is eventually run.
FairRegistry ==
    /\ WF_vars(HandleRebuildInterest)
    /\ WF_vars(HandleRegisterDispatch)
    /\ WF_vars(HandleRegister)

SpecRegistryFair == Init /\ [][NextRegistry]_vars /\ FairRegistry

\* The Registry under the same scheduling, with collectors that may end.
SpecWaitFair == Init /\ [][NextWait]_vars /\ FairRegistry

\* The Registry with every write of rebuild_interest as a step of its own.
SpecRebuild == Init /\ [][NextRebuild]_vars

\* The emitting process and its callsite.
SpecCallsite == Init /\ [][NextCallsite]_vars

\* Dispatch operations without any dispatch set.
SpecNone == Init /\ [][NextNone]_vars

\* Request/reply operations on live collectors.
SpecRequest == Init /\ [][NextRequest]_vars

\* Fire-and-forget operations on live collectors.
SpecFifo == Init /\ [][NextFifo]_vars

\* The senders to the Registry without a Registry.
SpecNoRegistry == InitNoRegistry /\ [][NextNoRegistry]_vars

\* The processes that install the global subscriber.
SpecSubscriber == Init /\ [][NextSubscriber]_vars

\* Comparisons, parsing and formatting of levels.
SpecLevel == Init /\ [][NextLevel]_vars

\* Two processes, each with its own default-dispatcher context.
SpecContexts == Init /\ [][NextContexts]_vars

\* The emitting process, its scoped and global default and their collectors.
SpecScoped == Init /\ [][NextScoped]_vars

\* LevelFilter::current() of the emitting process next to the Registry.
SpecRace == Init /\ [][NextRace]_vars

\* The Registry's handlers, one message to a collector at a time.
SpecMessages == Init /\ [][NextMessages]_vars

\* The emitting process of every build, and the global subscriber.
SpecEvents == InitFeatures /\ [][NextEvents]_vars

Next == NextDispatch \/ NextRegistry

Spec == Init /\ [][Next]_vars

\* ------------------------------------------------------------------------
\* Properties of the default-dispatcher context
\* ------------------------------------------------------------------------
Resolved == get_default(scoped, global)

\* What get_default resolves to when the scoped slot holds sc.
ResolvedWith(sc) == IF is_set(sc) THEN sc ELSE global

\* C1: get_default hands f the scoped dispatch if one is set, otherwise the
\* global dispatch if one is set, otherwise the None dispatch, after any
\* sequence of set_default, guard release and set_global_default calls.
C1_GetDefaultOrder ==
    last.op = "get_default" =>
        /\ scoped # NoProcess => last.res = scoped
        /\ (scoped = NoProcess /\ global # NoProcess) => last.res = global
        /\ (scoped = NoProcess /\ global = NoProcess) => last.res = NoProcess

C1_Witness ==
    /\ last.op = "get_default"
    /\ guards # <<>>
    /\ Len(sgd) > 0
    /\ global # NoProcess
    /\ scoped # NoProcess
    /\ scoped # global
    /\ last.res = scoped

C3_Original ==
    last.op \in {"with_return", "with_panic"} =>
        /\ scoped = last.was
        /\ Resolved = last.before

\* C3 amended: when with_default ends, by return or by panic, the scoped
\* slot has the value of before the call; get_default resolves as before
\* the call, except that when no scoped and no global dispatch was set
\* before the call and f installed the global default, it resolves to
\* that global.
C3_WithDefaultRestores ==
    last.op \in {"with_return", "with_panic"} =>
        /\ scoped = last.was
        /\ \/ Resolved = last.before
           \/ /\ last.was = NoProcess
              /\ last.before = NoProcess
              /\ Resolved = global

C3_Witness ==
    /\ last.op = "with_panic"
    /\ ~unwinding
    /\ last.was # NoProcess
    /\ last.res # NoProcess
    /\ last.res # last.was
    /\ scoped = last.was

\* C4: the first set_global_default(d), for any d, returns success and
\* has_been_set() is true afterwards; every later call returns the
\* already-set error and leaves the global slot unchanged.
C4_FirstSucceedsLaterFail ==
    /\ Len(sgd) >= 1 => (sgd[1] = "Ok" /\ has_been_set(global))
    /\ \A i \in 2..Len(sgd) : sgd[i] = "Err"
    /\ (last.op = "set_global_default" /\ Len(sgd) >= 2) => global = last.gwas

\* C5: in every sequence of set_global_default calls, with any dispatch
\* arguments, at most one call returns success.
C5_AtMostOneSuccess ==
    Cardinality({i \in 1..Len(sgd) : sgd[i] = "Ok"}) <= 1

\* ------------------------------------------------------------------------
\* Properties of the Registry
\* ------------------------------------------------------------------------
RebuildOps == {"rebuild", "register_dispatch"}

\* A rebuild has completed and no collector changed or died since.
RebuildDone == ~stuck /\ handled \in RebuildOps

\* The callsites whose cache the last handled message computed.
Computed ==
    IF stuck THEN {}
    ELSE IF handled \in RebuildOps THEN 1..Len(callsites)
    ELSE IF handled = "register" THEN {Len(callsites)}
    ELSE {}

\* What the collectors of the dispatchers in ds return from
\* register_callsite for a callsite with this metadata.
Returned(ds, meta) ==
    {Collect_register_callsite(collectors[ds[i]], meta) : i \in 1..Len(ds)}

\* The combination rule of the data model: never iff all never, always iff
\* all always, sometimes otherwise; never when nobody is asked.
Combination(R) ==
    IF R = {} \/ R = {"never"} THEN "never"
    ELSE IF R = {"always"} THEN "always"
    ELSE "sometimes"

\* C6: for a callsite and a non-empty list of dispatchers, the interest the
\* Registry caches is never iff every dispatcher's register_callsite
\* returns never, always iff every one returns always, sometimes otherwise.
C6_CombinedInterest ==
    \A i \in Computed :
        LET R == Returned(dispatchers, callsites[i].meta)
            c == Callsite_interest(callsites[i].interest)
        IN dispatchers # <<>> =>
            /\ c = "never" <=> R = {"never"}
            /\ c = "always" <=> R = {"always"}
            /\ c = "sometimes" <=> (R # {"never"} /\ R # {"always"})

C6_Witness ==
    /\ RebuildDone
    /\ Len(dispatchers) = 2
    /\ \E i, j \in 1..Len(callsites) :
          /\ callsites[i].interest = 2
          /\ Returned(dispatchers, callsites[i].meta) = {"always"}
          /\ callsites[j].interest = 1
          /\ Returned(dispatchers, callsites[j].meta) = {"always", "sometimes"}

\* Every ordering of the sequence s (its elements are distinct).
Orderings(s) ==
    {t \in [1..Len(s) -> {s[i] : i \in 1..Len(s)}] :
        \A i, j \in 1..Len(s) : i # j => t[i] # t[j]}

MostVerbose(S) ==
    IF S = {} THEN OFF_USIZE ELSE CHOOSE x \in S : \A y \in S : x <= y

\* The max_level_hint each listed collector reports, an absent hint
\* counted as TRACE.
ReportedHints(ds) ==
    {unwrap_or(Collect_max_level_hint(collectors[ds[i]]), TRACE_USIZE) :
        i \in 1..Len(ds)}

\* C8: after any rebuild completes, the published max level is the maximum
\* max_level_hint over the dispatchers remaining in the list, an absent hint
\* counted as TRACE, and OFF when the list is empty; with a single
\* collector whose hint is DEBUG, LevelFilter::current() returns DEBUG.
C8_MaxLevelIsMaxHint ==
    RebuildDone => MAX_LEVEL = MostVerbose(ReportedHints(dispatchers))

\* C9: once a registered collector has become inactive and a rebuild has
\* run, its dispatcher is no longer in the dispatcher list, and if no other
\* collector is active the published max level is OFF.
C9_InactivePruned ==
    handled \in RebuildOps =>
        /\ \A i \in 1..Len(dispatchers) : dispatchers[i] \notin active \cap dead
        /\ (active # {} /\ active \subseteq dead) => MAX_LEVEL = OFF_USIZE

\* C10: after a rebuild completes, every callsite in the list, including
\* those registered before the most recent collector was added, caches the
\* combination of the register_callsite answers of exactly the dispatchers
\* remaining in the list.
C10_AllCallsitesRebuilt ==
    RebuildDone =>
        \A i \in 1..Len(callsites) :
            Callsite_interest(callsites[i].interest)
                = Combination(Returned(dispatchers, callsites[i].meta))

C10_Witness ==
    /\ RebuildDone
    /\ handled = "register_dispatch"
    /\ Len(dispatchers) = 1
    /\ Len(callsites) = 2
    /\ callsites[1].interest = 2
    /\ callsites[2].interest = 1

\* ------------------------------------------------------------------------
\* Properties of the write order inside rebuild_interest
\* ------------------------------------------------------------------------
\* C11: whenever MAX_LEVEL holds the max level of the newest rebuild, that
\* rebuild has already rewritten the cache of every callsite: a reader
\* never sees the new max level next to a cache the rebuild has yet to
\* rewrite.
C11_MaxLevelPublishedLast == published => stale = {}

C11_Witness ==
    /\ published
    /\ pc = "idle"
    /\ handled = "rebuild"
    /\ Len(callsites) = 2
    /\ Len(dispatchers) = 2
    /\ callsites[1].interest # callsites[2].interest
    /\ MAX_LEVEL = TRACE_USIZE

\* ------------------------------------------------------------------------
\* Properties of the Callsite
\* ------------------------------------------------------------------------
\* C12: interest() on a callsite whose cache holds the uninitialized sentinel
\* registers the callsite with the Registry, caches the interest the
\* Registry computed and returns it; interest() on an initialized callsite
\* returns the cached value and sends nothing to the Registry.
C12_FirstInterestRegisters ==
    call.op = "interest" =>
        IF call.cache = UNINITIALIZED
        THEN /\ call.registry = 1
             /\ callsite.interest # UNINITIALIZED
             /\ call.interest = Callsite_interest(callsite.interest)
        ELSE /\ call.registry = 0
             /\ callsite.interest = call.cache
             /\ set_interest(call.interest) = call.cache

\* C13: is_enabled(interest) returns true and asks nobody when interest is
\* Always; for any other interest it returns what Collect::enabled of the
\* collector of the current default dispatch answers for the metadata of
\* the callsite, and false when the current default dispatch is None.
C13_IsEnabledAnswer ==
    call.op = "is_enabled" =>
        CASE call.interest = "always" ->
                 call.res /\ call.asked = NoProcess
          [] call.interest # "always" /\ ~is_set(call.default) ->
                 ~call.res
          [] OTHER ->
                 /\ call.asked = call.default
                 /\ call.res = Collect_enabled(collectors[call.default],
                                               callsite.metadata)

C15_NoneDispatchDefaults ==
    (ret.op # "none" /\ ~is_set(ret.d)) =>
        /\ ret.sent = 0
        /\ ~ret.waited
        /\ pending[ret.by] = NoRequest
        /\ \A p \in Pids : inbox[p] = <<>>
        /\ ret.op = "register_callsite" => ret.value = "never"
        /\ ret.op = "max_level_hint" => ret.value = None
        /\ ret.op = "new_span" => ret.value = SPAN_DEAD
        /\ ret.op = "enabled" => ret.value = FALSE
        /\ ret.op = "try_close" => ret.value = FALSE
        /\ ret.op = "clone_span" => ret.value = ret.arg
        /\ ret.op \in SendOps \ {"clone_span"} => ret.value = Unit

C15_Witness ==
    /\ ret.op = "enabled"
    /\ ret.by = "p2"
    /\ ret.arg = [target |-> "app", level |-> ERROR_USIZE]
    /\ ret.d = NoProcess
    /\ get_default(scoped, global) = NoProcess
    /\ ret.value = FALSE

\* C16: current_span() on the None dispatch returns the "unknown" value of
\* span::Current, not the "no current span" value.
C16_CurrentSpanUnknown ==
    (ret.op = "current_span" /\ ~is_set(ret.d)) => ret.value = "unknown"

\* C17: a producer that issued a request stays blocked while its message
\* waits in the mailbox of the collector, and the value a request returns
\* is the value the method of that collector produces for the argument of
\* that producer, also when two producers ask the same collector at once.
C17_ReplyIsCollectorsValue ==
    /\ \A c \in Producers :
          pending[c] # NoRequest =>
              \E i \in 1..Len(inbox[pending[c].d]) :
                  /\ inbox[pending[c].d][i].from = c
                  /\ inbox[pending[c].d][i].op = pending[c].op
    /\ ret.waited =>
          ret.value = Collect_method(collectors[ret.d], ret.op, ret.arg)

\* C19: a collector handles the messages of one producer in the order in
\* which that producer sent them: every message handled so far was newer
\* than all messages of its sender handled before it, and the messages of
\* one sender wait in a mailbox in sending order.
C19_PerSenderFifo ==
    /\ inorder
    /\ \A p \in Pids : \A i, j \in 1..Len(inbox[p]) :
          (i < j /\ inbox[p][i].from = inbox[p][j].from) =>
              /\ inbox[p][i].n < inbox[p][j].n
              /\ seen[p][inbox[p][i].from] < inbox[p][i].n

\* One collector has handled an enter and then an exit of one producer and,
\* in between or around them, an event of the other producer.
C19_Witness ==
    /\ inorder
    /\ seen[1]["p1"] = 2
    /\ seen[1]["p2"] = 1
    /\ ret.op = "exit"
    /\ ret.by = "p1"
    /\ inbox[1] = <<>>

\* ------------------------------------------------------------------------
\* Progress of the messages sent without waiting
\* ------------------------------------------------------------------------
RegisterWaiting ==
    \E i \in 1..Len(mailbox) : mailbox[i].type = "Register"

\* C18: a message sent without waiting for the receiver is eventually
\* processed by a live receiver under fair scheduling: a callsite
\* registration that waits in the mailbox of the Registry is eventually
\* taken out and handled.
C18_EventuallyProcessed == RegisterWaiting ~> ~RegisterWaiting

\* ------------------------------------------------------------------------
\* Properties of the senders when no Registry is reachable
\* ------------------------------------------------------------------------
RegistryCall ==
    \/ \E k \in CollectorKinds : Spawn(k)
    \/ \E m \in Metas : Register(m)
    \/ RebuildInterestCache

\* C20: while no Registry is reachable, registering a callsite, registering
\* a dispatcher (as Dispatch::spawn does) and rebuild_interest_cache send
\* nothing and leave every callsite cache and the published max level as
\* they are.
C20_NoRegistryNoOp ==
    [][(~registry_reachable /\ RegistryCall) =>
          /\ mailbox' = mailbox
          /\ callsites' = callsites
          /\ callsite' = callsite
          /\ MAX_LEVEL' = MAX_LEVEL
          /\ stuck' = stuck]_vars

C20_Witness ==
    /\ ~registry_reachable
    /\ Len(collectors) = 2
    /\ callsite # NoCallsite
    /\ callsite.interest = 1
    /\ mailbox = <<>>
    /\ MAX_LEVEL = UNSET_USIZE

\* ------------------------------------------------------------------------
\* Properties of the Registry as a process that handles one message at a time
\* ------------------------------------------------------------------------
\* What the handler in progress leaves behind when it returns: the callsites
\* it has yet to rewrite get the interest their dispatchers answer, the
\* others stay as written, and the max level it computed is stored. Outside
\* of a handler this is the state of the Registry as it is.
Linearized ==
    IF pc = "idle"
    THEN [callsites |-> callsites, dispatchers |-> dispatchers,
          max |-> MAX_LEVEL]
    ELSE [callsites |->
              [i \in 1..Len(callsites) |->
                  IF i \in stale
                  THEN [callsites[i] EXCEPT !.interest =
                          rebuild_callsite_interest(
                              Replies(dispatchers, callsites[i].meta))]
                  ELSE callsites[i]],
          dispatchers |-> dispatchers,
          max |-> LevelFilter_set_max(rebuild_max_level)]

\* The Registry state after one whole handler has run on the state L.
Sequential(L) ==
    {[callsites |-> r.callsites, dispatchers |-> r.dispatchers, max |-> r.max] :
        r \in {Registry_rebuild_interest(L.callsites, L.dispatchers)}
              \cup {Registry_rebuild_interest(L.callsites,
                                              Append(L.dispatchers, d)) :
                        d \in 1..Len(collectors)}}
    \cup {[L EXCEPT !.callsites =
              Registry_register(L.callsites, L.dispatchers, m)] : m \in Metas}

\* C21: the Registry takes a message out of its mailbox only when no handler
\* is in progress, and every step either leaves the state that the handler
\* in progress will leave behind as it is or changes it as one whole handler
\* does: the Registry state is always one that handling the messages one
\* after the other produces. A collector that changes its answers is a step
\* of the environment.
C21_OneAtATime ==
    [][/\ Len(mailbox') < Len(mailbox) => (pc = "idle" /\ ~stuck)
       /\ \/ collectors' # collectors
          \/ Linearized' = Linearized
          \/ Linearized' \in Sequential(Linearized)]_vars

\* A RegisterDispatch handler is inside rebuild_interest with a callsite yet
\* to rewrite, and the next message already waits in the mailbox.
C21_Witness ==
    /\ pc = "callsites"
    /\ stale # {}
    /\ Len(dispatchers) = 2
    /\ mailbox # <<>>
    /\ ~stuck

\* ------------------------------------------------------------------------
\* Progress of the registration that Dispatch::spawn sends
\* ------------------------------------------------------------------------
\* The registration of collector p has been sent and p is running.
SpawnedAlive(p) == p \in 1..Len(collectors) /\ p \notin dead

\* C22: Dispatch::spawn has sent the registration of the new dispatch when
\* it returns, and with a reachable Registry every spawned collector that
\* stays alive is eventually in the dispatcher list with a completed rebuild
\* that included it.
C22_SpawnEventuallyRegistered ==
    \A p \in Pids :
        SpawnedAlive(p) ~> (p \in dead \/ (p \in active /\ ~stuck))

\* ------------------------------------------------------------------------
\* Properties of Level and LevelFilter
\* ------------------------------------------------------------------------
\* The order the levels are documented to have, least verbose first.
ClaimedOrder == <<STR.off, STR.error, STR.warn, STR.info, STR.debug, STR.trace>>

ToLower(s) == [i \in 1..Len(s) |-> to_ascii_lowercase(s[i])]

\* The place of an operand in the documented order, found by its name.
Rank(x) ==
    IndexIn(ClaimedOrder,
            IF x.type = "Level" THEN ToLower(Level_as_str(x.value))
            ELSE LevelFilter_Display(x.value))

\* C27: Level and LevelFilter form one total order OFF < ERROR < WARN < INFO
\* < DEBUG < TRACE: whatever the types of the two operands, <, <=, >, >=, ==,
\* partial_cmp and cmp answer as the places of the operands in that order
\* compare.
C27_OneTotalOrder ==
    applied.fn = "compare" =>
        LET ra == Rank(applied.lhs)
            rb == Rank(applied.rhs)
        IN applied.result =
              CASE applied.op = "lt" -> ra < rb
                [] applied.op = "le" -> ra <= rb
                [] applied.op = "gt" -> ra > rb
                [] applied.op = "ge" -> ra >= rb
                [] applied.op = "eq" -> ra = rb
                [] applied.op = "partial_cmp" -> Some(usize_cmp(ra, rb))
                [] applied.op = "cmp" -> usize_cmp(ra, rb)

\* Level::INFO < LevelFilter::DEBUG was evaluated, and it is true.
C27_Witness ==
    /\ applied.fn = "compare"
    /\ applied.op = "lt"
    /\ applied.lhs.type = "Level"
    /\ applied.lhs.value = INFO_USIZE
    /\ applied.rhs.type = "LevelFilter"
    /\ applied.rhs.value = LevelFilter_DEBUG
    /\ applied.result = TRUE

\* C28: for each of the six LevelFilter values, parsing the text Display
\* writes for it gives the value back.
C28_DisplayFromStrRoundTrip ==
    applied.fn = "display" => applied.result = Ok(applied.lhs)

C28_Witness ==
    /\ applied.fn = "display"
    /\ applied.lhs = LevelFilter_OFF
    /\ applied.rhs = STR.off
    /\ applied.result.ok

\* What the names and numbers stand for: 0 and "off" for OFF up to 5 and
\* "trace" for TRACE, in the documented order.
Named(s) == \E i \in 1..Len(ClaimedOrder) : ToLower(s) = ClaimedOrder[i]
Numbered(s) == Len(s) = 1 /\ \E i \in 1..Len(ClaimedOrder) : s[1] = Digits[i]
PlaceOf(s) ==
    IF Named(s) THEN IndexIn(ClaimedOrder, ToLower(s))
    ELSE IndexIn(Digits, s[1])
FilterAt(i) ==
    CHOOSE x \in LevelFilterValues : LevelFilter_Display(x) = ClaimedOrder[i]

C24_SingletonUnderRaces ==
    /\ Cardinality({i \in 1..Len(inits) : inits[i].result = "Ok"}) <= 1
    /\ \A i \in 1..Len(inits) :
          inits[i].result = "Ok" => inits[i].named = NoProcess

\* Call j began after a call that installed a subscriber had returned.
LaterCall(j) ==
    \E k \in 1..inits[j].began : inits[k].result = "Ok"

\* C25: a call of init_subscriber or init_subscriber_fn that finds no
\* subscriber succeeds, every call made after a successful one returns
\* SubscriberAlreadyExistsError, and only successful calls spawn a
\* subscriber process and change the process registered under the name.
C25_LaterInitFails ==
    /\ \A j \in 1..Len(inits) :
          /\ LaterCall(j) =>
                /\ inits[j].result = "Err"
                /\ inits[j].process = NoProcess
          /\ inits[j].found = NoProcess => inits[j].result = "Ok"
    /\ Len(subscribers) =
          Cardinality({i \in 1..Len(inits) : inits[i].result = "Ok"})
    /\ named \in {NoProcess}
                 \cup {inits[i].process : i \in {k \in 1..Len(inits) :
                                                    inits[k].result = "Ok"}}

\* One process installed a subscriber, and afterwards it and the other
\* process were each refused.
C25_Witness ==
    /\ Len(inits) = 3
    /\ inits[1].result = "Ok"
    /\ inits[2].result = "Err"
    /\ inits[3].result = "Err"
    /\ inits[2].by # inits[3].by
    /\ inits[2].began = 1
    /\ named = inits[1].process

\* C26: the first LevelFilter::current() of a process, made while MAX_LEVEL
\* is unset, asks the global subscriber for its max_level_hint, publishes
\* the result (TRACE when the subscriber gives no hint, OFF when there is no
\* subscriber) and returns it; every later call returns the published value
\* and sends no message.
C26_CurrentResolvesOnce ==
    cur.op = "current" =>
        IF cur.first
        THEN /\ cur.before = UNSET_USIZE
             /\ cur.asked = (cur.process # NoProcess)
             /\ cur.value =
                   IF cur.process = NoProcess THEN OFF_USIZE
                   ELSE unwrap_or(IF Subscriber_max_level_hint(
                                         subscribers[cur.process]) = None
                                  THEN None
                                  ELSE Some(Subscriber_max_level_hint(
                                                subscribers[cur.process])[1]),
                                  TRACE_USIZE)
             /\ MAX_LEVEL = cur.value
        ELSE /\ ~cur.asked
             /\ cur.value = cur.before
             /\ MAX_LEVEL = cur.before

\* C30: a get_default call made from inside the closure of another get_default
\* call is given Dispatch::none, whatever dispatcher was set before.
C30_NestedGetDefaultIsNone ==
    last.op = "get_default_nested" => last.res = NoProcess
\* The state in which the scenario's event is emitted: the callsite is of
\* level TRACE, the global default is a collector with hint INFO, and the
\* Registry has handled every registration.
TraceEventUnderInfoGlobal ==
    /\ callsite # NoCallsite
    /\ callsite.metadata.level = TRACE_USIZE
    /\ is_set(global)
    /\ collectors[global] = "info"
    /\ mailbox = <<>>
    /\ ~stuck

C37_LevelSurvivesForwarding ==
    applied.fn = "forward" =>
        IF applied.op = "Metadata"
        THEN applied.result.level = applied.lhs.level
        ELSE applied.result = applied.lhs

\* C35: when interest() reads a cache value that is none of the encodings of
\* Never, Sometimes and Always, the call aborts and returns no Interest.
C35_UnknownCacheValueAborts ==
    (call.op = "interest" /\ call.cache \notin {set_interest(i) : i \in Interests})
        => call.interest \notin Interests

OthersUntouched(p) ==
    \A q \in Producers \ {p} :
        /\ GLOBAL_DISPATCHER'[q] = GLOBAL_DISPATCHER[q]
        /\ get_default_in(q)' = get_default_in(q)

\* C31: set_default and the release of a guard in one process change that
\* process's scoped slot only, never the global slot and never what
\* get_default resolves to in another process; a process spawned inside a
\* scope starts without the scoped dispatch of its parent; and
\* set_global_default changes no scoped slot.
C31_ScopedIsPrivate ==
    [][/\ plast'.op \in {"set_default", "drop"} =>
            /\ global_name' = global_name
            /\ GLOBAL_DISPATCHER'[plast'.by].global = GLOBAL_DISPATCHER[plast'.by].global
            /\ OthersUntouched(plast'.by)
       /\ plast'.op = "spawn" =>
            /\ \A q \in started : GLOBAL_DISPATCHER'[q] = GLOBAL_DISPATCHER[q]
            /\ \A q \in started' \ started :
                   /\ GLOBAL_DISPATCHER'[q].scoped = NoProcess
                   /\ get_default_in(q)' = global_name
       /\ plast'.op = "set_global_default" =>
            \A q \in Producers :
                GLOBAL_DISPATCHER'[q].scoped = GLOBAL_DISPATCHER[q].scoped]_vars

\* A process was spawned while its parent held a scoped dispatch that is not
\* the global one, and the child resolves to the global one.
C31_Witness ==
    /\ plast.op = "spawn"
    /\ started = Producers
    /\ held[plast.by] # <<>>
    /\ is_set(GLOBAL_DISPATCHER[plast.by].scoped)
    /\ is_set(global_name)
    /\ GLOBAL_DISPATCHER[plast.by].scoped # global_name
    /\ \A q \in Producers \ {plast.by} : get_default_in(q) = global_name

\* ------------------------------------------------------------------------
\* Properties of the events sent to the global subscriber
\* ------------------------------------------------------------------------
\* The event with number n and the level it was sent with is queued at, or
\* was received by, subscriber process p.
EventAt(p, n, lvl) ==
    \/ \E i \in 1..Len(smail[p]) :
          smail[p][i].n = n /\ smail[p][i].metadata.level = lvl
    \/ \E i \in 1..Len(shandled[p]) :
          shandled[p][i].n = n /\ shandled[p][i].sent.level = lvl

\* The level of the last event! statement is at or below both bounds: it is
\* not more verbose than STATIC_MAX_LEVEL nor than the value
\* LevelFilter::current() returns at the statement.
WithinBounds ==
    /\ stmt.level >= filter_as_usize(STATIC_MAX_LEVEL)
    /\ stmt.level >= stmt.current

\* C32: an event! statement whose level is more verbose than the value of
\* LevelFilter::current() at the statement or than STATIC_MAX_LEVEL
\* constructs no event and sends nothing; one whose level is at or below
\* both bounds constructs the event and sends it to the global subscriber
\* when one exists.
C32_LevelGate ==
    stmt.op = "event!" =>
        IF WithinBounds
        THEN /\ stmt.constructed
             /\ stmt.named # NoProcess =>
                   /\ stmt.queued
                   /\ stmt.to = stmt.named
                   /\ EventAt(stmt.to, stmt.n, stmt.level)
        ELSE /\ ~stmt.constructed
             /\ ~stmt.queued
             /\ stmt.n = 0

\* An event at INFO was sent to the subscriber under a filter that is not
\* the most verbose one.
C32_Witness ==
    /\ stmt.op = "event!"
    /\ stmt.level = INFO_USIZE
    /\ stmt.current = TRACE_USIZE
    /\ STATIC_MAX_LEVEL = LevelFilter_INFO
    /\ stmt.queued
    /\ stmt.to = named
    /\ EventAt(named, stmt.n, INFO_USIZE)

\* An event more verbose than the runtime filter only was held back.
C32_WitnessHeldBack ==
    /\ stmt.op = "event!"
    /\ stmt.level >= filter_as_usize(STATIC_MAX_LEVEL)
    /\ stmt.level < stmt.current
    /\ STATIC_MAX_LEVEL = LevelFilter_DEBUG
    /\ stmt.named # NoProcess
    /\ ~stmt.constructed

C36_WitnessRejected ==
    \E p \in 1..MaxSubscribers :
        /\ shandled[p] # <<>>
        /\ ~shandled[p][1].enabled
        /\ ~shandled[p][1].called

\* dispatch was called when no global subscriber existed.
C36_WitnessDropped ==
    /\ stmt.op = "dispatch"
    /\ stmt.to = NoProcess
    /\ named = NoProcess

\* ------------------------------------------------------------------------
\* Properties of the messages between the Registry and the collectors
\* ------------------------------------------------------------------------
\* The on_register_dispatch notification has been sent to collector p.
NotificationSent(p) ==
    \/ \E i \in 1..Len(cbox[p]) : cbox[p][i].op = "on_register_dispatch"
    \/ \E i \in 1..Len(clog[p]) : clog[p][i].op = "on_register_dispatch"

\* C33: the handler of a dispatcher registration notifies the new dispatch,
\* then appends it to the dispatcher list, then rebuilds: a dispatch in the
\* list has been sent its notification, the Registry sends its queries to
\* dispatches in the list only, and every max_level_hint or
\* register_callsite query of the Registry that a collector has handled
\* comes after the on_register_dispatch notification that collector handled.
C33_NotifyPushRebuild ==
    /\ \A i \in 1..Len(dispatchers) : NotificationSent(dispatchers[i])
    /\ \A p \in Pids :
          /\ \A i \in 1..Len(cbox[p]) :
                (cbox[p][i].from = FromRegistry
                 /\ cbox[p][i].op # "on_register_dispatch") =>
                    \E k \in 1..Len(dispatchers) : dispatchers[k] = p
          /\ \A i \in 1..Len(clog[p]) :
                (clog[p][i].from = FromRegistry
                 /\ clog[p][i].op \in {"max_level_hint", "register_callsite"}) =>
                    \E j \in 1..(i - 1) : clog[p][j].op = "on_register_dispatch"

\* A collector handled its notification, then the hint query and a
\* register_callsite query of the Registry, after a query of the emitting
\* process that it handled first.
C33_Witness ==
    \E p \in Pids :
        /\ Len(clog[p]) >= 4
        /\ clog[p][1].from = Emitter
        /\ clog[p][2].op = "on_register_dispatch"
        /\ clog[p][3] = [op |-> "max_level_hint", from |-> FromRegistry]
        /\ clog[p][4] = [op |-> "register_callsite", from |-> FromRegistry]

\* ------------------------------------------------------------------------
\* Properties of the registration of a callsite
\* ------------------------------------------------------------------------
\* The Interest the combination rule gives for the answers of the
\* dispatchers ds to the callsite with metadata meta: Never for no
\* dispatcher, the common answer when all agree, Sometimes otherwise.
CombinedInterest(ds, meta) ==
    LET answers == {Dispatch_register_callsite(ds[i], meta) : i \in 1..Len(ds)}
    IN IF answers = {} THEN "never"
       ELSE IF Cardinality(answers) = 1 THEN CHOOSE a \in answers : TRUE
       ELSE "sometimes"

\* C34: when the Registry has handled a Register message, the callsite list
\* is the old one with the new callsite at its end, whose cache holds the
\* interest combined over the dispatcher list of that moment; the dispatcher
\* list and the published max level are as before; and no step makes the
\* callsite list shorter or moves a callsite.
C34_RegisterAppends ==
    [][/\ (/\ mailbox # <<>>
           /\ Head(mailbox).type = "Register"
           /\ mailbox' = Tail(mailbox)
           /\ ~stuck') =>
              /\ Len(callsites') = Len(callsites) + 1
              /\ callsites'[Len(callsites')].meta = Head(mailbox).meta
              /\ callsites'[Len(callsites')].interest =
                     set_interest(CombinedInterest(dispatchers, Head(mailbox).meta))
              /\ \A i \in 1..Len(callsites) : callsites'[i] = callsites[i]
              /\ dispatchers' = dispatchers
              /\ MAX_LEVEL' = MAX_LEVEL
       /\ Len(callsites') >= Len(callsites)
       /\ \A i \in 1..Len(callsites) : callsites'[i].meta = callsites[i].meta
      ]_vars

\* A second callsite was registered with a dispatcher in the list, after the
\* collector changed what it answers for the first one.
C34_Witness ==
    /\ handled = "register"
    /\ ~stuck
    /\ Len(callsites) = 2
    /\ dispatchers # <<>>
    /\ callsites[2].interest # set_interest("never")
    /\ callsites[1].interest #
           set_interest(CombinedInterest(dispatchers, callsites[1].meta))

\* ------------------------------------------------------------------------
\* Properties of the first-use resolution next to a publish
\* ------------------------------------------------------------------------
\* The value the rebuild_interest over the present dispatcher list stores.
PublishedByRebuild ==
    LevelFilter_set_max(max_level_of(OFF_USIZE, SelectSeq(dispatchers, is_set)))

DeadIn(ds) == \E i \in 1..Len(ds) : ds[i] \in dead

\* A collector that has ended is in the dispatcher list or waits in the
\* mailbox to be put there.
DeadListed ==
    \/ DeadIn(dispatchers)
    \/ \E i \in 1..Len(mailbox) :
          mailbox[i].type = "RegisterDispatch" /\ mailbox[i].d \in dead

\* The Registry takes a message out of its mailbox.
RegistryTakes == mailbox # <<>> /\ mailbox' = Tail(mailbox)

\* C40: while no dispatcher belongs to a collector that has ended, the
\* Registry keeps taking the oldest message of its mailbox as long as there
\* is one, and every handler returns; the Registry is blocked only when it waits on a collector that
\* has ended, a handler that asks such a collector never returns, and from
\* then on no message is taken out of the mailbox.
C40_WaitsOnlyOnCollectors ==
    /\ \/ []<>(mailbox = <<>> \/ DeadListed)
       \/ []<><<RegistryTakes>>_vars
    /\ [](stuck => DeadIn(dispatchers))
    /\ [][/\ (RegistryTakes /\ DeadIn(dispatchers')) => stuck'
          /\ stuck => (/\ stuck'
                       /\ Len(mailbox') >= Len(mailbox)
                       /\ \A i \in 1..Len(mailbox) : mailbox'[i] = mailbox[i]
                       /\ dispatchers' = dispatchers
                       /\ callsites' = callsites
                       /\ MAX_LEVEL' = MAX_LEVEL)
         ]_vars

\* The Registry is blocked in a rebuild on the first of two collectors,
\* which has ended, and a message waits behind it.
C40_Witness ==
    /\ stuck
    /\ handled \in {"rebuild", "register_dispatch"}
    /\ Len(dispatchers) = 2
    /\ dispatchers[1] \in dead
    /\ dispatchers[2] \notin dead
    /\ mailbox # <<>>

\* The Registry handled a rebuild with two live collectors in the list.
C40_WitnessLive ==
    /\ ~stuck
    /\ handled = "rebuild"
    /\ Len(dispatchers) = 2
    /\ dead = {}
====
